---- MODULE Spec2Model ----
(***************************************************************************)
(* PictureModify: the region transforms of core/image_processor.py, the    *)
(* undo/redo store of utils/history_manager.py and the editor actions of   *)
(* gui/main_window.py that sequence them.                                  *)
(*                                                                         *)
(* Images are objects: a reference is <<id>> (or None) into `heap`, which   *)
(* maps an object id to the image value (width, height, pixels).  A        *)
(* PIL copy allocates a fresh object holding the same value.               *)
(*                                                                         *)
(* Three specifications share the variables:                               *)
(*   PSpec  the pure transforms applied to enumerated inputs               *)
(*   HSpec  HistoryManager driven by an arbitrary caller                   *)
(*   Spec   MainWindow: open, select, edit, undo, redo, reset              *)
(***************************************************************************)
EXTENDS Integers, Sequences, FiniteSets, TLC

VARIABLES
    heap,            \* object id -> image value
    history,         \* HistoryManager.history: sequence of object ids
    current_index,   \* HistoryManager.current_index
    max_history,     \* HistoryManager.max_history
    current_image,   \* MainWindow.current_image (the caller's live image): None or <<id>>
    original_image,  \* MainWindow.original_image: None or <<id>>
    canvas,          \* ImageCanvas: image, selection_rect, is_selecting, start_point
    last_text_edit,  \* MainWindow.last_text_edit: None or <<record>>
    selection_manager, \* SelectionManager: selection_rect, is_selecting, start_point
    ocr,             \* OCRProcessor.ocr: None or <<engine>>
    ret,             \* the value handed back by the last call: None or <<id>>
    last_op          \* the last operation, its arguments and the image before it

vars == <<heap, history, current_index, max_history, current_image,
          original_image, canvas, last_text_edit, selection_manager, ocr, ret, last_op>>

(***************************************************************************)
(* Bounds of the model.                                                    *)
(***************************************************************************)
MaxW == 3
MaxH == 3
MaxMaxHistory == 3
MaxEdits == 2

None == <<>>

Min(a, b) == IF a <= b THEN a ELSE b
Max(a, b) == IF a >= b THEN a ELSE b

RECURSIVE SumSeq(_)
SumSeq(s) == IF s = <<>> THEN 0 ELSE Head(s) + SumSeq(Tail(s))

RECURSIVE Insert(_, _)
Insert(v, s) ==
    IF s = <<>> THEN <<v>>
    ELSE IF v <= Head(s) THEN <<v>> \o s
    ELSE <<Head(s)>> \o Insert(v, Tail(s))

RECURSIVE Sorted(_)
Sorted(s) == IF s = <<>> THEN <<>> ELSE Insert(Head(s), Sorted(Tail(s)))

(***************************************************************************)
(* Pixels and image values.  A pixel is <<r, g, b>>, each channel 0..255.  *)
(* Pixel (x, y) of image im is im.px[<<x, y>>], 0 <= x < width,            *)
(* 0 <= y < height (numpy's img_array[y, x]).                              *)
(***************************************************************************)
Black == <<0, 0, 0>>
White == <<255, 255, 255>>
Red   == <<200, 30, 30>>
Palette == {Black, White, Red}

Dom(w, h) == (0 .. w - 1) \X (0 .. h - 1)

PixelsOf(im) == Dom(im.width, im.height)

\* An image value of size w x h whose pixels are those of px, a function on
\* (at least) Dom(w, h)
MkImage(w, h, px) ==
    [width |-> w, height |-> h, px |-> [p \in Dom(w, h) |-> px[p]]]

\* PIL Image.new('RGB', (w, h), color)
ImageNew(w, h, color) ==
    MkImage(w, h, [p \in Dom(w, h) |-> color])

\* PIL Image.crop((left, upper, right, lower)); the part of the box outside the
\* image is black
crop(im, box) ==
    LET w == box[3] - box[1]
        h == box[4] - box[2]
    IN  MkImage(w, h,
            [p \in Dom(w, h) |->
                IF <<p[1] + box[1], p[2] + box[2]>> \in PixelsOf(im)
                THEN im.px[<<p[1] + box[1], p[2] + box[2]>>]
                ELSE Black])

\* PIL Image.paste(src, (ax, ay)): src over dst with its corner at (ax, ay),
\* clipped to dst.  In the code paste acts in place on a fresh image.
paste(dst, src, at) ==
    MkImage(dst.width, dst.height,
        [p \in PixelsOf(dst) |->
            IF /\ at[1] <= p[1] /\ p[1] < at[1] + src.width
               /\ at[2] <= p[2] /\ p[2] < at[2] + src.height
            THEN src.px[<<p[1] - at[1], p[2] - at[2]>>]
            ELSE dst.px[p]])

\* numpy: img_array[y1:y2, x1:x2] = color, indices already inside the array
SliceAssign(im, x1, y1, x2, y2, color) ==
    MkImage(im.width, im.height,
        [p \in PixelsOf(im) |->
            IF x1 <= p[1] /\ p[1] < x2 /\ y1 <= p[2] /\ p[2] < y2
            THEN color ELSE im.px[p]])

\* max(0, min(v, hi))
Clamp(v, hi) == Max(0, Min(v, hi))

(***************************************************************************)
(* ImageProcessor.vertical_delete_and_stitch                               *)
(***************************************************************************)
\* The same with the lower part cropped one row too early, so that the last row
\* of the band survives.
StitchBandRowKept(image, selection_rect) ==
    LET width  == image.width
        height == image.height
        y1 == Clamp(selection_rect[2], height)
        y2 == Clamp(selection_rect[4], height)
        h  == y1 + (height - y2) + 1
    IN  IF y1 >= y2 \/ (y1 = 0 /\ y2 = height) THEN image
        ELSE MkImage(width, h,
                 [p \in Dom(width, h) |->
                     IF p[2] < y1 THEN image.px[p]
                     ELSE image.px[<<p[1], p[2] + (y2 - 1 - y1)>>]])

\* The same without the early return for a band that is empty after clamping.
StitchEmptyBandProceeds(image, selection_rect) ==
    LET width  == image.width
        height == image.height
        y1 == Clamp(selection_rect[2], height)
        y2 == Clamp(selection_rect[4], height)
        h  == y1 + (height - y2)
    IN  IF y1 = 0 /\ y2 = height THEN image
        ELSE MkImage(width, h,
                 [p \in Dom(width, h) |->
                     IF p[2] < y1 THEN image.px[p]
                     ELSE image.px[<<p[1], p[2] - y1 + y2>>]])

\* The same with the lower part pasted above the upper part.
StitchLowerPartFirst(image, selection_rect) ==
    LET width  == image.width
        height == image.height
        y1 == Clamp(selection_rect[2], height)
        y2 == Clamp(selection_rect[4], height)
        h  == y1 + (height - y2)
    IN  IF y1 >= y2 \/ (y1 = 0 /\ y2 = height) THEN image
        ELSE MkImage(width, h,
                 [p \in Dom(width, h) |->
                     IF p[2] < height - y2 THEN image.px[<<p[1], p[2] + y2>>]
                     ELSE image.px[<<p[1], p[2] - (height - y2)>>]])

vertical_delete_and_stitch(image, selection_rect) ==
    LET width  == image.width
        height == image.height
        y1 == Clamp(selection_rect[2], height)
        y2 == Clamp(selection_rect[4], height)
    IN  IF y1 >= y2 THEN image
        ELSE
          LET top_part    == IF y1 > 0 THEN <<crop(image, <<0, 0, width, y1>>)>> ELSE None
              bottom_part == IF y2 < height
                             THEN <<crop(image, <<0, y2, width, height>>)>> ELSE None
              new_height  == (IF top_part # None THEN y1 ELSE 0)
                             + (IF bottom_part # None THEN height - y2 ELSE 0)
          IN  IF new_height <= 0 THEN image
              ELSE
                LET new_image == ImageNew(width, new_height, White)
                    with_top  == IF top_part # None
                                 THEN paste(new_image, top_part[1], <<0, 0>>)
                                 ELSE new_image
                    current_y == IF top_part # None THEN top_part[1].height ELSE 0
                IN  IF bottom_part # None
                    THEN paste(with_top, bottom_part[1], <<0, current_y>>)
                    ELSE with_top

(***************************************************************************)
(* cv2.inpaint(img_array, mask, 3, cv2.INPAINT_TELEA): an external         *)
(* primitive.  It returns a new array that equals the source outside the   *)
(* mask; what it paints inside the mask is not decided here, so the        *)
(* outcome is a choice among sample paintings (each flat palette colour    *)
(* and one two-colour pattern).  mask is the set of masked pixels.         *)
(***************************************************************************)
Repaint(im, mask, paint) ==
    MkImage(im.width, im.height,
        [p \in PixelsOf(im) |-> IF p \in mask THEN paint[p] ELSE im.px[p]])

cv2_inpaint(im, mask) ==
    LET stripes == [p \in PixelsOf(im) |-> IF (p[1] + p[2]) % 2 = 0 THEN Black ELSE Red]
    IN  { Repaint(im, mask, [p \in PixelsOf(im) |-> c]) : c \in Palette }
        \cup { Repaint(im, mask, stripes) }

\* mask[y1:y2, x1:x2] = 255 on the zero mask of the image's size
RectMask(im, x1, y1, x2, y2) ==
    { p \in PixelsOf(im) : x1 <= p[1] /\ p[1] < x2 /\ y1 <= p[2] /\ p[2] < y2 }

(***************************************************************************)
(* The border sample of the 'average' and 'median' modes: the in-bounds    *)
(* row above, row below, column left and column right of the rectangle,    *)
(* in the order the code extends the list.                                 *)
(***************************************************************************)
RowSlice(im, y, x1, x2) == [i \in 1 .. (x2 - x1) |-> im.px[<<x1 + i - 1, y>>]]
ColSlice(im, x, y1, y2) == [i \in 1 .. (y2 - y1) |-> im.px[<<x, y1 + i - 1>>]]

border_pixels(im, x1, y1, x2, y2) ==
       (IF y1 > 0         THEN RowSlice(im, y1 - 1, x1, x2) ELSE <<>>)
    \o (IF y2 < im.height THEN RowSlice(im, y2, x1, x2)     ELSE <<>>)
    \o (IF x1 > 0         THEN ColSlice(im, x1 - 1, y1, y2) ELSE <<>>)
    \o (IF x2 < im.width  THEN ColSlice(im, x2, y1, y2)     ELSE <<>>)

Channel(pixels, k) == [i \in 1 .. Len(pixels) |-> pixels[i][k]]

\* np.mean(border_pixels, axis=0).astype(np.uint8): the mean of each channel,
\* its fraction dropped
MeanU8(vals) == SumSeq(vals) \div Len(vals)

\* np.median(border_pixels, axis=0).astype(np.uint8): the middle value of each
\* channel, the mean of the two middle values for an even count, fraction dropped
MedianU8(vals) ==
    LET s == Sorted(vals)
        n == Len(s)
    IN  IF n % 2 = 1 THEN s[(n + 1) \div 2]
        ELSE (s[n \div 2] + s[n \div 2 + 1]) \div 2

avg_color(pixels) ==
    <<MeanU8(Channel(pixels, 1)), MeanU8(Channel(pixels, 2)), MeanU8(Channel(pixels, 3))>>

median_color(pixels) ==
    <<MedianU8(Channel(pixels, 1)), MedianU8(Channel(pixels, 2)),
      MedianU8(Channel(pixels, 3))>>

(***************************************************************************)
(* ImageProcessor.smart_fill: the set of images the call can return (one   *)
(* image, except in mode 'inpaint').  fill_color is None or a pixel.       *)
(***************************************************************************)
FillModes == {"inpaint", "average", "color", "median"}

\* lines 102-109
inpaint_fill(image, x1, y1, x2, y2) ==
    cv2_inpaint(image, RectMask(image, x1, y1, x2, y2))

\* lines 111-133
\* average fill whose rows above and below reach over the four corner pixels
AverageFillSamplesCorners(image, x1, y1, x2, y2) ==
    LET left  == Max(0, x1 - 1)
        right == Min(image.width, x2 + 1)
        bp == (IF y1 > 0 THEN RowSlice(image, y1 - 1, left, right) ELSE <<>>)
              \o (IF y2 < image.height THEN RowSlice(image, y2, left, right) ELSE <<>>)
              \o (IF x1 > 0 THEN ColSlice(image, x1 - 1, y1, y2) ELSE <<>>)
              \o (IF x2 < image.width THEN ColSlice(image, x2, y1, y2) ELSE <<>>)
    IN  IF bp # <<>> THEN {SliceAssign(image, x1, y1, x2, y2, avg_color(bp))}
        ELSE {image}

average_fill(image, x1, y1, x2, y2) ==
    LET bp == border_pixels(image, x1, y1, x2, y2)
    IN  IF bp # <<>> THEN {SliceAssign(image, x1, y1, x2, y2, avg_color(bp))}
        ELSE {image}

\* The colour written with rows and columns exchanged: img_array[x1:x2, y1:y2]
ColorFillTransposed(image, x1, y1, x2, y2, fill_color) ==
    LET color == IF fill_color = None THEN White ELSE fill_color
    IN  {SliceAssign(image, y1, x1, y2, x2, color)}

\* lines 135-141
color_fill(image, x1, y1, x2, y2, fill_color) ==
    LET color == IF fill_color = None THEN White ELSE fill_color
    IN  {SliceAssign(image, x1, y1, x2, y2, color)}

\* lines 143-161
\* median fill that writes the mean of the sample
MedianFillWritesMean(image, x1, y1, x2, y2) ==
    LET bp == border_pixels(image, x1, y1, x2, y2)
    IN  IF bp # <<>> THEN {SliceAssign(image, x1, y1, x2, y2, avg_color(bp))}
        ELSE {image}

median_fill(image, x1, y1, x2, y2) ==
    LET bp == border_pixels(image, x1, y1, x2, y2)
    IN  IF bp # <<>> THEN {SliceAssign(image, x1, y1, x2, y2, median_color(bp))}
        ELSE {image}

\* An unrecognised mode handled as the default mode 'inpaint'
UnknownModeInpaints(image, x1, y1, x2, y2) ==
    cv2_inpaint(image, RectMask(image, x1, y1, x2, y2))

\* lines 163-164: any other mode returns image.copy()
unknown_mode_fill(image, x1, y1, x2, y2) == {image}

smart_fill(image, selection_rect, fill_mode, fill_color) ==
    LET width  == image.width
        height == image.height
        x1 == Clamp(selection_rect[1], width)
        y1 == Clamp(selection_rect[2], height)
        x2 == Clamp(selection_rect[3], width)
        y2 == Clamp(selection_rect[4], height)
    IN  IF x1 >= x2 \/ y1 >= y2 THEN {image}
        ELSE IF fill_mode = "inpaint" THEN inpaint_fill(image, x1, y1, x2, y2)
        ELSE IF fill_mode = "average" THEN average_fill(image, x1, y1, x2, y2)
        ELSE IF fill_mode = "color" THEN color_fill(image, x1, y1, x2, y2, fill_color)
        ELSE IF fill_mode = "median" THEN median_fill(image, x1, y1, x2, y2)
        ELSE unknown_mode_fill(image, x1, y1, x2, y2)

(***************************************************************************)
(* The object store.  Image.copy(), Image.fromarray(), Image.new() and     *)
(* Image.crop() each make a new object; an object no reference reaches is  *)
(* dropped at the end of the call that released it.                        *)
(***************************************************************************)
Ref(i) == <<i>>

NewId(hp) ==
    CHOOSE i \in 0 .. Cardinality(DOMAIN hp) :
        i \notin DOMAIN hp /\ \A j \in 0 .. i - 1 : j \in DOMAIN hp

\* the store with a new object of value v, whose id is NewId(hp)
Alloc(hp, v) == hp @@ (NewId(hp) :> v)

SeqIds(s) == { s[i] : i \in 1 .. Len(s) }

(***************************************************************************)
(* An object's id is only a name.  Every action ends by naming the objects *)
(* in the order in which the references of the state first reach them      *)
(* (roots: the sequence of all the state's references), so that two states *)
(* that differ only in the ids are one state.  Objects that share a buffer *)
(* keep sharing it.                                                        *)
(***************************************************************************)
FirstPos(roots, o) ==
    CHOOSE i \in 1 .. Len(roots) : roots[i] = o /\ \A j \in 1 .. i - 1 : roots[j] # o

Name(roots, o) == Cardinality({ roots[j] : j \in 1 .. FirstPos(roots, o) - 1 })

RenameSeq(roots, refs) == [i \in 1 .. Len(refs) |-> Name(roots, refs[i])]

RenameHeap(roots, hp) ==
    [n \in 0 .. Cardinality(SeqIds(roots)) - 1 |->
        hp[CHOOSE o \in SeqIds(roots) : Name(roots, o) = n]]

(***************************************************************************)
(* The record of the last operation, kept for stating the properties.      *)
(*   op      its name                                                      *)
(*   ran     whether an editor action went on to run its transform         *)
(*   rect    the rectangle, bbox, point or size it was given (else None)   *)
(*   mode, color   the fill mode and fill colour                           *)
(*   pre     <<the value of the image it was given or applied to>>         *)
(*   result  <<the value of the image it handed back>>, None for None      *)
(*   first   whether the image was as loaded (or as reset) before it       *)
(*   fresh   whether the image is as loaded (or as reset) after it         *)
(*   prev    for an undo or a redo, <<what it remembers of the edit that   *)
(*           directly precedes it>>, else None                             *)
(*   store   <<the history before it: the entries' values and the cursor>> *)
(*   calls   the calls made on the history since it was last empty, while  *)
(*           they run save_state, save_state, undo, save_state             *)
(***************************************************************************)
NoOp ==
    [op |-> "none", ran |-> FALSE, rect |-> None, mode |-> "", color |-> None,
     pre |-> None, result |-> None, first |-> FALSE, fresh |-> FALSE, prev |-> None,
     store |-> None, calls |-> <<>>]

\* MainWindow.__init__: HistoryManager(max_history=20)
EditorMaxHistory == 20

NoCanvas ==
    [image |-> None, selection_rect |-> None, is_selecting |-> FALSE, start_point |-> None]

\* SelectionManager.__init__
NoSelection == [selection_rect |-> None, is_selecting |-> FALSE, start_point |-> None]

(***************************************************************************)
(* HistoryManager.  A method takes self, the manager's fields together     *)
(* with the object store and the value it returns, and yields self after   *)
(* the call.                                                               *)
(***************************************************************************)
Self ==
    [history |-> history, current_index |-> current_index,
     max_history |-> max_history, heap |-> heap, result |-> None]

can_undo(self) == self.current_index > 0

can_redo(self) == self.current_index < Len(self.history) - 1

\* self.history[:self.current_index + 1]
Truncated(self) ==
    IF self.current_index < Len(self.history) - 1
    THEN SubSeq(self.history, 1, self.current_index + 1)
    ELSE self.history

\* save_state that keeps the entries after the cursor
SaveStateKeepsRedo(self, image) ==
    LET image_copy == NewId(self.heap)
        hp         == Alloc(self.heap, self.heap[image])
        appended   == Append(self.history, image_copy)
    IN  IF Len(appended) > self.max_history
        THEN [self EXCEPT !.history = Tail(appended), !.heap = hp]
        ELSE [self EXCEPT !.history = appended, !.heap = hp,
                          !.current_index = self.current_index + 1]

\* save_state that evicts with pop() instead of pop(0)
SaveStatePopsLast(self, image) ==
    LET kept       == Truncated(self)
        image_copy == NewId(self.heap)
        hp         == Alloc(self.heap, self.heap[image])
        appended   == Append(kept, image_copy)
    IN  IF Len(appended) > self.max_history
        THEN [self EXCEPT !.history = kept, !.heap = hp]
        ELSE [self EXCEPT !.history = appended, !.heap = hp,
                          !.current_index = self.current_index + 1]

\* save_state that advances the cursor also when it evicts
SaveStateAlwaysAdvances(self, image) ==
    LET kept       == Truncated(self)
        image_copy == NewId(self.heap)
        hp         == Alloc(self.heap, self.heap[image])
        appended   == Append(kept, image_copy)
    IN  IF Len(appended) > self.max_history
        THEN [self EXCEPT !.history = Tail(appended), !.heap = hp,
                          !.current_index = self.current_index + 1]
        ELSE [self EXCEPT !.history = appended, !.heap = hp,
                          !.current_index = self.current_index + 1]

\* save_state that appends the image it is given, not a copy
SaveStateSharesBuffer(self, image) ==
    LET kept     == Truncated(self)
        appended == Append(kept, image)
    IN  IF Len(appended) > self.max_history
        THEN [self EXCEPT !.history = Tail(appended)]
        ELSE [self EXCEPT !.history = appended,
                          !.current_index = self.current_index + 1]

\* save_state that moves the cursor back when it evicts
SaveStateRetreatsOnEvict(self, image) ==
    LET kept       == Truncated(self)
        image_copy == NewId(self.heap)
        hp         == Alloc(self.heap, self.heap[image])
        appended   == Append(kept, image_copy)
    IN  IF Len(appended) > self.max_history
        THEN [self EXCEPT !.history = Tail(appended), !.heap = hp,
                          !.current_index = Max(0, self.current_index - 1)]
        ELSE [self EXCEPT !.history = appended, !.heap = hp,
                          !.current_index = self.current_index + 1]

save_state(self, image) ==
    LET kept       == Truncated(self)
        image_copy == NewId(self.heap)
        hp         == Alloc(self.heap, self.heap[image])
        appended   == Append(kept, image_copy)
    IN  IF Len(appended) > self.max_history
        THEN [self EXCEPT !.history = Tail(appended), !.heap = hp]
        ELSE [self EXCEPT !.history = appended, !.heap = hp,
                          !.current_index = self.current_index + 1]

\* undo that hands back the entry the cursor left
UndoReturnsEntryLeft(self) ==
    IF can_undo(self)
    THEN LET idx == self.current_index - 1
         IN  [self EXCEPT !.current_index = idx,
                          !.heap = Alloc(self.heap, self.heap[self.history[idx + 2]]),
                          !.result = Ref(NewId(self.heap))]
    ELSE [self EXCEPT !.result = None]

undo(self) ==
    IF can_undo(self)
    THEN LET idx == self.current_index - 1
         IN  [self EXCEPT !.current_index = idx,
                          !.heap = Alloc(self.heap, self.heap[self.history[idx + 1]]),
                          !.result = Ref(NewId(self.heap))]
    ELSE [self EXCEPT !.result = None]

redo(self) ==
    IF can_redo(self)
    THEN LET idx == self.current_index + 1
         IN  [self EXCEPT !.current_index = idx,
                          !.heap = Alloc(self.heap, self.heap[self.history[idx + 1]]),
                          !.result = Ref(NewId(self.heap))]
    ELSE [self EXCEPT !.result = None]

clear(self) == [self EXCEPT !.history = <<>>, !.current_index = 0 - 1]

get_current_state(self) ==
    IF 0 <= self.current_index /\ self.current_index < Len(self.history)
    THEN [self EXCEPT !.heap = Alloc(self.heap, self.heap[self.history[self.current_index + 1]]),
                      !.result = Ref(NewId(self.heap))]
    ELSE [self EXCEPT !.result = None]

\* reset that does not clear
ResetWithoutClear(self, image) ==
    IF image # None THEN save_state(self, image[1]) ELSE self

\* reset that does not save the image
ResetWithoutSave(self, image) == clear(self)

\* image is None or <<id>>
reset(self, image) ==
    IF image # None THEN save_state(clear(self), image[1]) ELSE clear(self)

\* the values of the entries of a history
EntryValues(hp, h) == [i \in 1 .. Len(h) |-> hp[h[i]]]

Snapshot ==
    <<[entries |-> EntryValues(heap, history), cursor |-> current_index]>>

(***************************************************************************)
(* PSpec: the transforms of ImageProcessor as functions.  The input image  *)
(* is object 0; each call leaves its result in ret.                        *)
(***************************************************************************)
Gradient(w, h) == MkImage(w, h, [p \in Dom(w, h) |-> <<10 + 60 * p[1], 20 + 60 * p[2], 90>>])
Checker(w, h)  == MkImage(w, h, [p \in Dom(w, h) |->
                                  IF (p[1] + p[2]) % 2 = 0 THEN Black ELSE White])
TestImages ==
    UNION { {Gradient(w, h), Checker(w, h), ImageNew(w, h, White)} :
            <<w, h>> \in (1 .. MaxW) \X (1 .. MaxH) }

\* rectangles as a caller may pass them: any order, inside or outside the image
TestRects == ((0 - 1) .. (MaxW + 1)) \X ((0 - 1) .. (MaxH + 1))
             \X ((0 - 1) .. (MaxW + 1)) \X ((0 - 1) .. (MaxH + 1))

TestModes == FillModes \cup {"blur"}

TestColors(mode) == IF mode = "color" THEN {None} \cup Palette ELSE {None}

PInit ==
    /\ \E im \in TestImages : heap = (0 :> im)
    /\ current_image = Ref(0)
    /\ ret = None
    /\ last_op = NoOp
    /\ history = <<>>
    /\ current_index = 0 - 1
    /\ max_history = EditorMaxHistory
    /\ original_image = None
    /\ canvas = NoCanvas
    /\ last_text_edit = None
    /\ selection_manager = NoSelection
    /\ ocr = None

PFrame == UNCHANGED <<history, current_index, max_history, current_image,
                      original_image, canvas, last_text_edit, selection_manager, ocr>>

PReturn(image, result, op) ==
    /\ heap' = Alloc(heap, result)
    /\ ret' = Ref(NewId(heap))
    /\ last_op' = op
    /\ PFrame

\* one call is made on each input
CallStitch ==
    /\ ret = None
    /\ \E rect \in TestRects :
        LET image == current_image[1]
        IN  PReturn(image, vertical_delete_and_stitch(heap[image], rect),
                    [NoOp EXCEPT !.op = "vertical_delete_and_stitch", !.rect = rect,
                                 !.pre = <<heap[image]>>])

CallFill ==
    /\ ret = None
    /\ \E rect \in TestRects, mode \in TestModes :
        \E color \in TestColors(mode) :
            LET image == current_image[1]
            IN  \E result \in smart_fill(heap[image], rect, mode, color) :
                    PReturn(image, result,
                            [NoOp EXCEPT !.op = "smart_fill", !.rect = rect,
                                         !.mode = mode, !.color = color,
                                         !.pre = <<heap[image]>>])

PNext == CallStitch \/ CallFill

PSpec == PInit /\ [][PNext]_vars

(***************************************************************************)
(* HSpec: a HistoryManager with max_history >= 1 and a caller that holds   *)
(* a live image (current_image), makes any sequence of calls, takes the    *)
(* image a call hands back as its live image, replaces its live image by   *)
(* a new one, or changes its live image in place.                          *)
(***************************************************************************)
HImages == { ImageNew(1, 1, c) : c \in Palette }

ScenarioCalls == <<"save_state", "save_state", "undo", "save_state">>

\* last_op.calls after the call <<name>> or <<name, image value>>
NextCalls(call) ==
    IF call[1] = "save_state" /\ history = <<>> THEN <<call>>
    ELSE IF /\ last_op.calls # <<>>
            /\ Len(last_op.calls) < Len(ScenarioCalls)
            /\ call[1] = ScenarioCalls[Len(last_op.calls) + 1]
         THEN Append(last_op.calls, call)
         ELSE <<>>

ResultValue(self) == IF self.result = None THEN None ELSE <<self.heap[self.result[1]]>>

HInit ==
    /\ max_history \in 1 .. MaxMaxHistory
    /\ history = <<>>
    /\ current_index = 0 - 1
    /\ \E im \in HImages : heap = (0 :> im)
    /\ current_image = Ref(0)
    /\ ret = None
    /\ last_op = NoOp
    /\ original_image = None
    /\ canvas = NoCanvas
    /\ last_text_edit = None
    /\ selection_manager = NoSelection
    /\ ocr = None

HFrame == UNCHANGED <<max_history, original_image, canvas, last_text_edit,
                      selection_manager, ocr>>

\* the state after a call that left the manager as self
HReturn(self, name, given) ==
    LET roots == self.history \o current_image \o self.result
    IN  /\ history' = RenameSeq(roots, self.history)
        /\ current_index' = self.current_index
        /\ heap' = RenameHeap(roots, self.heap)
        /\ current_image' = RenameSeq(roots, current_image)
        /\ ret' = RenameSeq(roots, self.result)
        /\ last_op' = [NoOp EXCEPT !.op = name, !.pre = given, !.store = Snapshot,
                                   !.result = ResultValue(self),
                                   !.calls = NextCalls(<<name>> \o given)]
        /\ HFrame

SaveState ==
    HReturn(save_state(Self, current_image[1]), "save_state", <<heap[current_image[1]]>>)

Undo == HReturn(undo(Self), "undo", None)

Redo == HReturn(redo(Self), "redo", None)

Clear == HReturn(clear(Self), "clear", None)

GetCurrentState == HReturn(get_current_state(Self), "get_current_state", None)

Reset ==
    \/ HReturn(reset(Self, current_image), "reset", <<heap[current_image[1]]>>)
    \/ HReturn(reset(Self, None), "reset", None)

\* the state after a step of the caller that left the store as hp, its live
\* image as live and the image handed back as returned
HCaller(hp, live, returned, name) ==
    LET roots == history \o live \o returned
    IN  /\ history' = RenameSeq(roots, history)
        /\ heap' = RenameHeap(roots, hp)
        /\ current_image' = RenameSeq(roots, live)
        /\ ret' = RenameSeq(roots, returned)
        /\ last_op' = [NoOp EXCEPT !.op = name, !.store = Snapshot,
                                   !.pre = <<heap[current_image[1]]>>,
                                   !.calls = last_op.calls]
        /\ UNCHANGED current_index
        /\ HFrame

\* the caller goes on with the image handed back (MainWindow.undo, lines 678-680)
TakeReturned ==
    /\ ret # None
    /\ HCaller(heap, ret, None, "take")

\* the caller's live image becomes a new image (the result of a transform)
NewImage ==
    \E im \in HImages :
        /\ im # heap[current_image[1]]
        /\ HCaller(Alloc(heap, im), Ref(NewId(heap)), ret, "new")

\* the caller changes its live image in place (Image.paste, ImageDraw.text)
DrawOnLive ==
    \E im \in HImages :
        /\ im # heap[current_image[1]]
        /\ HCaller([heap EXCEPT ![current_image[1]] = im], current_image, ret, "draw")

HNext ==
    \/ SaveState
    \/ Undo
    \/ Redo
    \/ Clear
    \/ GetCurrentState
    \/ Reset
    \/ TakeReturned
    \/ NewImage
    \/ DrawOnLive

HSpec == HInit /\ [][HNext]_vars

(***************************************************************************)
(* TextEditor.delete_text and TextEditor.add_text, as the sets of images   *)
(* the calls can return.  A bbox is a sequence of four points <<x, y>>.    *)
(***************************************************************************)
padding == 2

XCoords(bbox) == { bbox[i][1] : i \in 1 .. Len(bbox) }
YCoords(bbox) == { bbox[i][2] : i \in 1 .. Len(bbox) }

SetMin(S) == CHOOSE v \in S : \A u \in S : v <= u
SetMax(S) == CHOOSE v \in S : \A u \in S : v >= u

\* The pixels one bbox marks, without the padding.
BBoxMaskUnpadded(image, bbox) ==
    RectMask(image, SetMin(XCoords(bbox)), SetMin(YCoords(bbox)),
             SetMax(XCoords(bbox)), SetMax(YCoords(bbox)))

\* lines 217-230: the pixels one bbox marks in the mask
BBoxMask(image, bbox) ==
    LET x1 == Max(0, SetMin(XCoords(bbox)))
        x2 == Min(image.width, SetMax(XCoords(bbox)))
        y1 == Max(0, SetMin(YCoords(bbox)))
        y2 == Min(image.height, SetMax(YCoords(bbox)))
    IN  IF x1 < x2 /\ y1 < y2
        THEN RectMask(image, Max(0, x1 - padding), Max(0, y1 - padding),
                      Min(image.width, x2 + padding), Min(image.height, y2 + padding))
        ELSE {}

\* lines 214-230: mask after the loop over text_bboxes
delete_text_mask(image, text_bboxes) ==
    UNION { BBoxMask(image, text_bboxes[i]) : i \in 1 .. Len(text_bboxes) }

delete_text(image, text_bboxes) ==
    IF text_bboxes = <<>> THEN {image}
    ELSE cv2_inpaint(image, delete_text_mask(image, text_bboxes))

(***************************************************************************)
(* ImageDraw.text is an external rasteriser.  The glyphs are taken to fill *)
(* the box the font reports for the text, text_width x text_height, whose  *)
(* size the model does not decide: each extent is chosen in 0 .. MaxText.  *)
(***************************************************************************)
MaxText == 1

add_text(image, target_bbox, new_text, font_color) ==
    IF new_text = "" THEN {image}
    ELSE
      LET x1 == SetMin(XCoords(target_bbox))
          x2 == SetMax(XCoords(target_bbox))
          y1 == SetMin(YCoords(target_bbox))
          y2 == SetMax(YCoords(target_bbox))
          center_x == (x1 + x2) \div 2
          center_y == (y1 + y2) \div 2
      IN  { LET text_x == center_x - (text_width \div 2)
                text_y == center_y - (text_height \div 2)
            IN  SliceAssign(image, text_x, text_y,
                            text_x + text_width, text_y + text_height, font_color)
            : <<text_width, text_height>> \in (0 .. MaxText) \X (0 .. MaxText) }

(***************************************************************************)
(* TextEditor.extract_font_features: the set of feature records the call   *)
(* can return.  image is None or an image value, text_bbox is None (or the *)
(* empty list) or a bbox.  cv2.Canny is an external primitive: whether the *)
(* region counts as bold is not decided here.                              *)
(***************************************************************************)
_get_default_features ==
    [font_size |-> 24, font_color |-> <<0, 0, 0>>, is_bold |-> FALSE,
     char_spacing |-> 2, bbox |-> None]

\* text_region.reshape(-1, 3): the pixels of img_array[y1:y2, x1:x2], row by row
RegionPixels(im, x1, y1, x2, y2) ==
    [i \in 1 .. ((x2 - x1) * (y2 - y1)) |->
        im.px[<<x1 + ((i - 1) % (x2 - x1)), y1 + ((i - 1) \div (x2 - x1))>>]]

\* pixels[np.sum(pixels, axis=1) < 600]
DarkPixels(pixels) ==
    SelectSeq(pixels, LAMBDA px : px[1] + px[2] + px[3] < 600)

\* The same with the clamped bounds reported as the source bbox of an empty
\* region.
ExtractReportsEmptyRegion(image, text_bbox) ==
    IF image = None \/ text_bbox = None THEN {_get_default_features}
    ELSE
      LET x1 == Clamp(SetMin(XCoords(text_bbox)), image.width)
          x2 == Clamp(SetMax(XCoords(text_bbox)), image.width)
          y1 == Clamp(SetMin(YCoords(text_bbox)), image.height)
          y2 == Clamp(SetMax(YCoords(text_bbox)), image.height)
      IN  { [_get_default_features EXCEPT !.bbox = <<x1, y1, x2, y2>>] }

\* The same with the two sizes rounded to the nearest integer.
ExtractRoundsSizes(image, text_bbox) ==
    IF image = None \/ text_bbox = None THEN {_get_default_features}
    ELSE
      LET x1 == Clamp(SetMin(XCoords(text_bbox)), image.width)
          x2 == Clamp(SetMax(XCoords(text_bbox)), image.width)
          y1 == Clamp(SetMin(YCoords(text_bbox)), image.height)
          y2 == Clamp(SetMax(YCoords(text_bbox)), image.height)
      IN  IF (x2 - x1) * (y2 - y1) = 0 THEN {_get_default_features}
          ELSE { [font_size    |-> Max(12, ((y2 - y1) * 8 + 5) \div 10),
                  font_color   |-> <<0, 0, 0>>,
                  is_bold      |-> FALSE,
                  char_spacing |-> Max(0, ((x2 - x1) * 5 + 50) \div 100),
                  bbox         |-> <<x1, y1, x2, y2>>] }

extract_font_features(image, text_bbox) ==
    IF image = None \/ text_bbox = None THEN {_get_default_features}
    ELSE
      LET width  == image.width
          height == image.height
          x1 == Clamp(SetMin(XCoords(text_bbox)), width)
          x2 == Clamp(SetMax(XCoords(text_bbox)), width)
          y1 == Clamp(SetMin(YCoords(text_bbox)), height)
          y2 == Clamp(SetMax(YCoords(text_bbox)), height)
      IN  IF (x2 - x1) * (y2 - y1) = 0 THEN {_get_default_features}
          ELSE
            LET pixels      == RegionPixels(image, x1, y1, x2, y2)
                dark_pixels == DarkPixels(pixels)
                font_color  == IF Len(dark_pixels) > 0 THEN median_color(dark_pixels)
                               ELSE avg_color(pixels)
            IN  { [font_size    |-> Max(12, ((y2 - y1) * 8) \div 10),
                   font_color   |-> font_color,
                   is_bold      |-> is_bold,
                   char_spacing |-> Max(0, ((x2 - x1) * 5) \div 100),
                   bbox         |-> <<x1, y1, x2, y2>>] : is_bold \in BOOLEAN }

(***************************************************************************)
(* The transforms on image objects.  The definitions above give the pixels *)
(* a transform produces; these give the object that holds them: a call     *)
(* yields the store after it and the id of the object it returns.          *)
(* Image.copy, Image.new and Image.fromarray make a new object, and        *)
(* ImageDraw.Draw(image).text writes into the object it is given.          *)
(***************************************************************************)
\* Image.copy handing back the image it was asked to copy
CopyReturnsSelf(hp, image) == [heap |-> hp, result |-> image]

\* image.copy()
Image_copy(hp, image) == [heap |-> Alloc(hp, hp[image]), result |-> NewId(hp)]

\* Image.new(...) with parts pasted, Image.fromarray(array): a new object
\* holding value
Image_fromarray(hp, value) == [heap |-> Alloc(hp, value), result |-> NewId(hp)]

\* draw.text(...) on ImageDraw.Draw(image): image holds value afterwards
ImageDraw_text(hp, image, value) ==
    [heap |-> [hp EXCEPT ![image] = value], result |-> image]

ImageProcessor_vertical_delete_and_stitch(hp, image, selection_rect) ==
    LET height == hp[image].height
        y1 == Clamp(selection_rect[2], height)
        y2 == Clamp(selection_rect[4], height)
        new_height == (IF y1 > 0 THEN y1 ELSE 0)
                      + (IF y2 < height THEN height - y2 ELSE 0)
    IN  IF y1 >= y2 THEN {Image_copy(hp, image)}
        ELSE IF new_height <= 0 THEN {Image_copy(hp, image)}
        ELSE {Image_fromarray(hp, vertical_delete_and_stitch(hp[image], selection_rect))}

ImageProcessor_smart_fill(hp, image, selection_rect, fill_mode, fill_color) ==
    LET width  == hp[image].width
        height == hp[image].height
        x1 == Clamp(selection_rect[1], width)
        y1 == Clamp(selection_rect[2], height)
        x2 == Clamp(selection_rect[3], width)
        y2 == Clamp(selection_rect[4], height)
    IN  IF x1 >= x2 \/ y1 >= y2 THEN {Image_copy(hp, image)}
        ELSE IF fill_mode \in FillModes
        THEN { Image_fromarray(hp, result) :
                 result \in smart_fill(hp[image], selection_rect, fill_mode, fill_color) }
        ELSE {Image_copy(hp, image)}

TextEditor_delete_text(hp, image, text_bboxes) ==
    IF text_bboxes = <<>> THEN {Image_copy(hp, image)}
    ELSE { Image_fromarray(hp, result) : result \in delete_text(hp[image], text_bboxes) }

\* font_params is None or <<font_color>>; with None the colour is the one
\* extract_font_features reads from the image the old text was deleted from.
\* The text is placed and drawn as in add_text, into the image delete_text
\* returned.
TextEditor_replace_text(hp, image, old_text_bbox, new_text, font_params) ==
    IF new_text = "" THEN {Image_copy(hp, image)}
    ELSE UNION {
           LET deleted == d.heap[d.result]
               font_colors ==
                   IF font_params = None
                   THEN { font_features.font_color :
                            font_features \in extract_font_features(deleted, old_text_bbox) }
                   ELSE {font_params[1]}
           IN  UNION { { ImageDraw_text(d.heap, d.result, drawn) :
                           drawn \in add_text(deleted, old_text_bbox, new_text, font_color) }
                       : font_color \in font_colors }
           : d \in TextEditor_delete_text(hp, image, <<old_text_bbox>>) }

\* image_copy = image.copy(), then the text is drawn into image_copy
TextEditor_add_text(hp, image, target_bbox, new_text, font_color) ==
    IF new_text = "" THEN {Image_copy(hp, image)}
    ELSE LET c == Image_copy(hp, image)
         IN  { ImageDraw_text(c.heap, c.result, drawn) :
                 drawn \in add_text(hp[image], target_bbox, new_text, font_color) }

(***************************************************************************)
(* TSpec: the calls of TextEditor and ImageProcessor on image objects.     *)
(* The store holds one input image; one call is made on it, with any bbox  *)
(* or rectangle, inside or outside the image.                              *)
(***************************************************************************)
BBoxOf(rect) ==
    << <<rect[1], rect[2]>>, <<rect[3], rect[2]>>,
       <<rect[3], rect[4]>>, <<rect[1], rect[4]>> >>

TestBBoxes == { BBoxOf(rect) : rect \in TestRects }

\* images one pixel across and LongSide long, laid either way: text regions
\* tall or wide enough for the size features to leave their lower limits
LongSide == 17

StripImages == {Checker(LongSide, 1), Checker(1, LongSide)}

StripBBoxes ==
    { BBoxOf(<<0, 0, x2, y2>>) :
        x2 \in {1} \cup ((LongSide - 6) .. LongSide),
        y2 \in {1} \cup ((LongSide - 6) .. LongSide) }

TInit ==
    /\ \E im \in TestImages \cup StripImages : heap = (0 :> im)
    /\ current_image = Ref(0)
    /\ ret = None
    /\ last_op = NoOp
    /\ history = <<>>
    /\ current_index = 0 - 1
    /\ max_history = EditorMaxHistory
    /\ original_image = None
    /\ canvas = NoCanvas
    /\ last_text_edit = None
    /\ selection_manager = NoSelection
    /\ ocr = None

TFrame == UNCHANGED <<history, current_index, max_history, current_image,
                      original_image, canvas, last_text_edit, selection_manager, ocr>>

CallExtract ==
    /\ last_op.op = "none"
    /\ \E given \in {None, current_image}, text_bbox \in {None} \cup TestBBoxes \cup StripBBoxes :
         LET image == IF given = None THEN None ELSE heap[given[1]]
         IN  \E features \in extract_font_features(image, text_bbox) :
               /\ last_op' = [NoOp EXCEPT !.op = "extract_font_features",
                                          !.rect = text_bbox,
                                          !.pre = IF given = None THEN None ELSE <<image>>,
                                          !.result = <<features>>]
               /\ UNCHANGED <<heap, ret>>
               /\ TFrame

TestTexts == {"", "Hi"}

\* font_params as replace_text takes them: None, or <<the font colour>>
TestFontParams == {None, <<Red>>}

\* the state after the call op on the input image that yielded r.  Of the
\* arguments last_op keeps only the mode; last_op.pre is the input before
\* the call, last_op.ran tells whether the pixels returned differ from it.
TReturn(r, op) ==
    /\ heap' = r.heap
    /\ ret' = Ref(r.result)
    /\ last_op' = [op EXCEPT !.pre = <<heap[current_image[1]]>>,
                             !.ran = r.heap[r.result] # heap[current_image[1]]]
    /\ TFrame

CallStitchOn ==
    /\ last_op.op = "none"
    /\ \E rect \in TestRects :
       \E r \in ImageProcessor_vertical_delete_and_stitch(heap, current_image[1], rect) :
          TReturn(r, [NoOp EXCEPT !.op = "vertical_delete_and_stitch"])

CallFillOn ==
    /\ last_op.op = "none"
    /\ \E rect \in TestRects, mode \in TestModes :
       \E color \in TestColors(mode) :
       \E r \in ImageProcessor_smart_fill(heap, current_image[1], rect, mode, color) :
          TReturn(r, [NoOp EXCEPT !.op = "smart_fill", !.mode = mode])

\* bboxes along a strip image, and bboxes that cover no pixel of it
StripTextBBoxes ==
    { BBoxOf(rect) : rect \in {<<0, 0, 1, 1>>, <<5, 0, 7, 1>>, <<12, 0, 13, 1>>,
                               <<0, 5, 1, 7>>, <<0, 12, 1, 13>>,
                               <<0 - 2, 0, 0, 1>>, <<4, 0, 4, 1>>,
                               <<LongSide, 0, LongSide + 1, 1>>} }

\* the lists given to delete_text: none, one bbox, two bboxes
TestBBoxLists ==
    {<<>>}
    \cup { <<bbox>> : bbox \in TestBBoxes \cup StripTextBBoxes }
    \cup (StripTextBBoxes \X StripTextBBoxes)

\* last_op.rect is the list given and last_op.calls the masks handed to
\* cv2.inpaint, in the order of the calls
CallDeleteText ==
    /\ last_op.op = "none"
    /\ \E text_bboxes \in TestBBoxLists :
       \E r \in TextEditor_delete_text(heap, current_image[1], text_bboxes) :
          TReturn(r, [NoOp EXCEPT !.op = "delete_text",
                                  !.rect = text_bboxes,
                                  !.calls = IF text_bboxes = <<>> THEN <<>>
                                            ELSE <<delete_text_mask(heap[current_image[1]],
                                                                    text_bboxes)>>])

CallReplaceText ==
    /\ last_op.op = "none"
    /\ \E bbox \in TestBBoxes, new_text \in TestTexts, font_params \in TestFontParams :
       \E r \in TextEditor_replace_text(heap, current_image[1], bbox, new_text,
                                        font_params) :
          TReturn(r, [NoOp EXCEPT !.op = "replace_text"])

CallAddText ==
    /\ last_op.op = "none"
    /\ \E bbox \in TestBBoxes, new_text \in TestTexts, font_color \in Palette :
       \E r \in TextEditor_add_text(heap, current_image[1], bbox, new_text, font_color) :
          TReturn(r, [NoOp EXCEPT !.op = "add_text"])

TNext ==
    \/ CallExtract
    \/ CallStitchOn
    \/ CallFillOn
    \/ CallDeleteText
    \/ CallReplaceText
    \/ CallAddText

TSpec == TInit /\ [][TNext]_vars

(***************************************************************************)
(* OCRProcessor.  The engine is PaddleOCR, an external library: whether it *)
(* can be built, and what a call of it does, is not decided by this        *)
(* program, so both are choices.  A result of the engine is None or a      *)
(* list of pages, a page is None or a list of lines, and a line is None or *)
(* <<bbox, <<text, confidence>>>>; confidence is in percent.               *)
(***************************************************************************)
PaddleOCR == <<"PaddleOCR">>

\* _init_ocr(): the engine, or None when paddleocr is not installed, no
\* local models are found or the engine cannot be built
_init_ocr == {None, PaddleOCR}

TextLine == <<<<<<0, 0>>, <<1, 0>>, <<1, 1>>, <<0, 1>>>>, <<"Hi", 90>>>>

\* what self.ocr.ocr(img_array, cls=True) may hand back
OracleResults == {None, <<None>>, <<<<TextLine>>>>, <<<<None, TextLine>>>>}

\* a call of the engine raises or returns
OracleOutcomes ==
    {[raised |-> TRUE, result |-> None]}
        \cup {[raised |-> FALSE, result |-> r] : r \in OracleResults}

\* recognize_text(image_region) when the engine call ends as oracle
recognize_text(self, image_region, oracle) ==
    IF self = None THEN <<>>
    ELSE IF image_region = None THEN <<>>
    ELSE IF oracle.raised THEN <<>>
    ELSE LET result == oracle.result
             lines  == SelectSeq(result[1], LAMBDA line : line # None)
         IN  IF result # None /\ result[1] # None
             THEN [i \in 1 .. Len(lines) |->
                     [text |-> lines[i][2][1], bbox |-> lines[i][1],
                      confidence |-> lines[i][2][2]]]
             ELSE <<>>

is_available(self) == self # None

(***************************************************************************)
(* OSpec: a caller that holds an image and an OCRProcessor and makes one   *)
(* call on the processor.  last_op.pre is the region passed, last_op.mode  *)
(* how the call ended ("unavailable": no engine; "no_image": no region;    *)
(* "raised": the engine raised; "ran": the engine returned), and           *)
(* last_op.store the history before the call.                              *)
(***************************************************************************)
OInit ==
    /\ ocr \in _init_ocr
    /\ \E im \in TestImages : heap = (0 :> im)
    /\ current_image = Ref(0)
    /\ ret = None
    /\ last_op = NoOp
    /\ history = <<>>
    /\ current_index = 0 - 1
    /\ max_history = EditorMaxHistory
    /\ original_image = None
    /\ canvas = NoCanvas
    /\ last_text_edit = None
    /\ selection_manager = NoSelection

OFrame == UNCHANGED <<heap, history, current_index, max_history, current_image,
                      original_image, canvas, last_text_edit, selection_manager,
                      ocr, ret>>

\* how a call of recognize_text on region ends under oracle
Ending(region, oracle) ==
    IF ocr = None THEN "unavailable"
    ELSE IF region = None THEN "no_image"
    ELSE IF oracle.raised THEN "raised"
    ELSE "ran"

CallRecognize ==
    /\ last_op.op = "none"
    /\ \E given \in {None, current_image}, oracle \in OracleOutcomes :
         LET image_region == IF given = None THEN None ELSE heap[given[1]]
         IN  /\ last_op' = [NoOp EXCEPT !.op = "recognize_text",
                                        !.ran = Ending(given, oracle) = "ran",
                                        !.mode = Ending(given, oracle),
                                        !.pre = IF given = None THEN None
                                                ELSE <<image_region>>,
                                        !.result =
                                            <<recognize_text(ocr, image_region, oracle)>>,
                                        !.store = Snapshot]
             /\ OFrame

CallIsAvailable ==
    /\ last_op.op = "none"
    /\ last_op' = [NoOp EXCEPT !.op = "is_available", !.ran = TRUE,
                               !.result = <<is_available(ocr)>>,
                               !.store = Snapshot]
    /\ OFrame

ONext ==
    \/ CallRecognize
    \/ CallIsAvailable

OSpec == OInit /\ [][ONext]_vars

(***************************************************************************)
(* ImageCanvas                                                             *)
(***************************************************************************)
\* set_image(image): the canvas keeps a copy.  Yields the canvas and the store.
set_image(cv, hp, image) ==
    [canvas |-> [cv EXCEPT !.image = Ref(NewId(hp))], heap |-> Alloc(hp, hp[image])]

clear_selection(cv) ==
    [cv EXCEPT !.selection_rect = None, !.is_selecting = FALSE, !.start_point = None]

\* _canvas_to_image: the image points the pointer positions tried map to; a
\* position off the image maps to none
PointerPoints == {<<0, 0>>, <<1, 1>>}

CanvasPoints ==
    IF canvas.image = None THEN {}
    ELSE PointerPoints \cap PixelsOf(heap[canvas.image[1]])

(***************************************************************************)
(* MainWindow                                                              *)
(***************************************************************************)
_selection_to_bbox(selection) ==
    IF selection = None THEN None
    ELSE IF selection[1] = selection[3] \/ selection[2] = selection[4] THEN None
    ELSE << <<selection[1], selection[2]>>, <<selection[3], selection[2]>>,
            <<selection[3], selection[4]>>, <<selection[1], selection[4]>> >>

_bbox_to_rect(bbox) ==
    IF bbox = None THEN None
    ELSE <<SetMin(XCoords(bbox)), SetMin(YCoords(bbox)),
           SetMax(XCoords(bbox)), SetMax(YCoords(bbox))>>

\* the images FileHandler.open_image can return
EditorImages == {Gradient(2, 2), ImageNew(1, 1, White)}

\* what the dialogs can hand back
DialogColors == {Red}
FontColors   == {Black}
DialogTexts  == {"", "Hi"}

Init ==
    /\ heap = <<>>
    /\ history = <<>>
    /\ current_index = 0 - 1
    /\ max_history = EditorMaxHistory
    /\ current_image = None
    /\ original_image = None
    /\ canvas = NoCanvas
    /\ last_text_edit = None
    /\ selection_manager = NoSelection
    /\ ocr = None
    /\ ret = None
    /\ last_op = NoOp

\* what an undo or a redo remembers of the action before it
EditOps == {"vertical_delete_stitch", "smart_fill", "delete_text_in_selection",
            "add_text_in_selection", "edit_text_in_selection"}

\* an undo or a redo remembers the edit it directly follows
Remembered(op) ==
    IF op.op \in EditOps /\ op.ran
    THEN <<[op |-> op.op, pre |-> op.pre, first |-> op.first, mode |-> op.mode,
            changed |-> op.result # op.pre, result |-> op.result]>>
    ELSE None

\* the record of an editor action applied to the current image
EditorOp(name, ran) ==
    [NoOp EXCEPT !.op = name, !.ran = ran,
                 !.rect = IF name \in EditOps /\ ran THEN canvas.selection_rect ELSE None,
                 !.pre = IF current_image = None \/ (name \in {"undo", "redo"} /\ ran)
                         THEN None ELSE <<heap[current_image[1]]>>,
                 !.first = last_op.fresh,
                 !.fresh = IF ran THEN name \in {"open_file", "reset_image"}
                           ELSE last_op.fresh,
                 !.prev = IF name \in {"undo", "redo"} THEN Remembered(last_op) ELSE None]

\* the state after an editor action that left the manager and the store as self
EReturn(self, cur, orig, cv, lte, op) ==
    LET roots == self.history \o cur \o orig \o cv.image
    IN  /\ history' = RenameSeq(roots, self.history)
        /\ current_index' = self.current_index
        /\ heap' = RenameHeap(roots, self.heap)
        /\ current_image' = RenameSeq(roots, cur)
        /\ original_image' = RenameSeq(roots, orig)
        /\ canvas' = [cv EXCEPT !.image = RenameSeq(roots, cv.image)]
        /\ last_text_edit' = lte
        /\ last_op' = [op EXCEPT !.result =
                          IF cur = None THEN None ELSE <<self.heap[cur[1]]>>]
        /\ UNCHANGED <<max_history, selection_manager, ocr, ret>>

\* an action that returned before changing anything
Rejected(name) ==
    /\ last_op' = [EditorOp(name, FALSE) EXCEPT !.result = EditorOp(name, FALSE).pre,
                                                !.store = Snapshot]
    /\ UNCHANGED <<heap, history, current_index, max_history, current_image,
                   original_image, canvas, last_text_edit, selection_manager, ocr, ret>>

\* the current image becomes the new object holding result, shown on the
\* canvas with the selection cleared
ShowResult(self, result, lte, op) ==
    LET rid   == NewId(self.heap)
        shown == set_image(canvas, Alloc(self.heap, result), rid)
    IN  EReturn([self EXCEPT !.heap = shown.heap], Ref(rid), original_image,
                clear_selection(shown.canvas), lte, op)

open_file ==
    \/ \E image \in EditorImages :
          LET id    == NewId(heap)
              hp1   == Alloc(heap, image)
              orig  == NewId(hp1)
              hp2   == Alloc(hp1, image)
              shown == set_image(canvas, hp2, id)
              self  == reset([Self EXCEPT !.heap = shown.heap], Ref(id))
          IN  EReturn(self, Ref(id), Ref(orig), clear_selection(shown.canvas), None,
                      [EditorOp("open_file", TRUE) EXCEPT !.pre = <<image>>])
    \/ Rejected("open_file")

mousePressEvent ==
    \E pt \in CanvasPoints :
        /\ canvas' = [canvas EXCEPT !.is_selecting = TRUE, !.start_point = pt,
                                    !.selection_rect = None]
        /\ UNCHANGED <<heap, history, current_index, max_history, current_image,
                       original_image, last_text_edit, selection_manager, ocr, ret, last_op>>

mouseMoveEvent ==
    /\ canvas.is_selecting
    /\ canvas.start_point # None
    /\ \E pt \in CanvasPoints :
        /\ canvas' = [canvas EXCEPT !.selection_rect =
                          <<Min(canvas.start_point[1], pt[1]), Min(canvas.start_point[2], pt[2]),
                            Max(canvas.start_point[1], pt[1]), Max(canvas.start_point[2], pt[2])>>]
        /\ UNCHANGED <<heap, history, current_index, max_history, current_image,
                       original_image, last_text_edit, selection_manager, ocr, ret, last_op>>

mouseReleaseEvent ==
    /\ canvas.is_selecting
    /\ canvas' = [canvas EXCEPT !.is_selecting = FALSE]
    /\ UNCHANGED <<heap, history, current_index, max_history, current_image,
                   original_image, last_text_edit, selection_manager, ocr, ret, last_op>>

MainWindow_undo ==
    LET self == undo(Self)
    IN  IF self.result # None
        THEN LET shown == set_image(canvas, self.heap, self.result[1])
             IN  EReturn([self EXCEPT !.heap = shown.heap], self.result, original_image,
                         shown.canvas, last_text_edit, EditorOp("undo", TRUE))
        ELSE EReturn(self, current_image, original_image, canvas, last_text_edit,
                     EditorOp("undo", FALSE))

MainWindow_redo ==
    LET self == redo(Self)
    IN  IF self.result # None
        THEN LET shown == set_image(canvas, self.heap, self.result[1])
             IN  EReturn([self EXCEPT !.heap = shown.heap], self.result, original_image,
                         shown.canvas, last_text_edit, EditorOp("redo", TRUE))
        ELSE EReturn(self, current_image, original_image, canvas, last_text_edit,
                     EditorOp("redo", FALSE))

reset_image ==
    /\ original_image # None
    /\ \/ LET id    == NewId(heap)
              shown == set_image(canvas, Alloc(heap, heap[original_image[1]]), id)
              self  == reset([Self EXCEPT !.heap = shown.heap], Ref(id))
          IN  EReturn(self, Ref(id), original_image, clear_selection(shown.canvas), None,
                      EditorOp("reset_image", TRUE))
       \/ Rejected("reset_image")

\* the guard every editing action starts with
NoTarget == current_image = None \/ canvas.selection_rect = None

vertical_delete_stitch ==
    IF NoTarget THEN Rejected("vertical_delete_stitch")
    ELSE /\ current_index < MaxEdits
         /\ LET self   == save_state(Self, current_image[1])
                 result == vertical_delete_and_stitch(heap[current_image[1]],
                                                      canvas.selection_rect)
             IN  ShowResult(self, result, last_text_edit,
                            EditorOp("vertical_delete_stitch", TRUE))

\* smart_fill saving the state before the dialog is answered
SmartFillSavesBeforeDialog ==
    IF NoTarget THEN Rejected("smart_fill")
    ELSE /\ current_index < MaxEdits
         /\ LET self == save_state(Self, current_image[1])
            IN  \/ \E fill_mode \in FillModes :
                   \E dialog_color \in {None} \cup DialogColors :
                     LET fill_color == IF fill_mode = "color" THEN dialog_color ELSE None
                     IN  /\ fill_mode # "color" => dialog_color = None
                         /\ \E result \in smart_fill(heap[current_image[1]],
                                              canvas.selection_rect, fill_mode, fill_color) :
                               ShowResult(self, result, last_text_edit,
                                   [EditorOp("smart_fill", TRUE) EXCEPT !.mode = fill_mode,
                                                                        !.color = fill_color])
                \/ EReturn(self, current_image, original_image, canvas, last_text_edit,
                           [EditorOp("smart_fill", FALSE) EXCEPT !.store = Snapshot])

MainWindow_smart_fill ==
    IF NoTarget THEN Rejected("smart_fill")
    ELSE \/ /\ current_index < MaxEdits
            /\ \E fill_mode \in FillModes :
               \E dialog_color \in {None} \cup DialogColors :
                 LET fill_color == IF fill_mode = "color" THEN dialog_color ELSE None
                     self == save_state(Self, current_image[1])
                 IN  /\ fill_mode # "color" => dialog_color = None
                     /\ \E result \in smart_fill(heap[current_image[1]],
                                                  canvas.selection_rect, fill_mode, fill_color) :
                           ShowResult(self, result, last_text_edit,
                               [EditorOp("smart_fill", TRUE) EXCEPT !.mode = fill_mode,
                                                                    !.color = fill_color])
         \/ Rejected("smart_fill")

delete_text_in_selection ==
    IF NoTarget \/ _selection_to_bbox(canvas.selection_rect) = None
    THEN Rejected("delete_text_in_selection")
    ELSE /\ current_index < MaxEdits
         /\ LET bbox == _selection_to_bbox(canvas.selection_rect)
                 self == save_state(Self, current_image[1])
             IN  \E processed_image \in delete_text(heap[current_image[1]], <<bbox>>) :
                     ShowResult(self, processed_image, None,
                                EditorOp("delete_text_in_selection", TRUE))

add_text_in_selection ==
    IF NoTarget \/ _selection_to_bbox(canvas.selection_rect) = None
    THEN Rejected("add_text_in_selection")
    ELSE \/ /\ current_index < MaxEdits
            /\ LET bbox == _selection_to_bbox(canvas.selection_rect)
                    selection_rect == _bbox_to_rect(bbox)
                    area_snapshot  == crop(heap[current_image[1]], selection_rect)
                    self == save_state(Self, current_image[1])
                IN  \E new_text \in DialogTexts \ {""}, font_color \in FontColors :
                    \E result \in add_text(heap[current_image[1]], bbox, new_text, font_color) :
                        ShowResult(self, result,
                            <<[bbox |-> bbox, selection_rect |-> selection_rect,
                               snapshot |-> <<area_snapshot>>, text |-> new_text,
                               font_color |-> font_color]>>,
                            EditorOp("add_text_in_selection", TRUE))
         \/ Rejected("add_text_in_selection")

edit_text_in_selection ==
    IF current_image = None \/ last_text_edit = None
       \/ (canvas.selection_rect # None /\ _selection_to_bbox(canvas.selection_rect) = None)
    THEN Rejected("edit_text_in_selection")
    ELSE \/ /\ current_index < MaxEdits
            /\ LET last_info == last_text_edit[1]
                    bbox == IF canvas.selection_rect # None
                            THEN _selection_to_bbox(canvas.selection_rect)
                            ELSE last_info.bbox
                    selection_rect == IF canvas.selection_rect # None
                                      THEN _bbox_to_rect(bbox)
                                      ELSE last_info.selection_rect
                    previous_rect == last_info.selection_rect
                    working_image == paste(heap[current_image[1]], last_info.snapshot[1],
                                           <<previous_rect[1], previous_rect[2]>>)
                    area_snapshot == crop(working_image, selection_rect)
                    self == save_state(Self, current_image[1])
                IN  \E new_text \in DialogTexts \ {""}, font_color \in FontColors :
                    \E updated_image \in add_text(working_image, bbox, new_text, font_color) :
                        ShowResult(self, updated_image,
                            <<[bbox |-> bbox, selection_rect |-> selection_rect,
                               snapshot |-> <<area_snapshot>>, text |-> new_text,
                               font_color |-> font_color]>>,
                            EditorOp("edit_text_in_selection", TRUE))
         \/ Rejected("edit_text_in_selection")

Next ==
    \/ open_file
    \/ mousePressEvent
    \/ mouseMoveEvent
    \/ mouseReleaseEvent
    \/ MainWindow_undo
    \/ MainWindow_redo
    \/ reset_image
    \/ vertical_delete_stitch
    \/ MainWindow_smart_fill
    \/ delete_text_in_selection
    \/ add_text_in_selection
    \/ edit_text_in_selection

Spec == Init /\ [][Next]_vars

(***************************************************************************)
(* SelectionManager.  A method takes self, the manager's fields, and       *)
(* yields self after the call; a query yields its value.                   *)
(***************************************************************************)
\* has_selection: abs(x2 - x1) > 5 and abs(y2 - y1) > 5
MinExtent == 5

Abs(v) == IF v < 0 THEN 0 - v ELSE v

start_selection(self, x, y) ==
    [self EXCEPT !.is_selecting = TRUE, !.start_point = <<x, y>>, !.selection_rect = None]

\* The same with the rectangle kept in the order of the drag.
UpdateKeepsDragOrder(self, x, y) ==
    IF self.is_selecting /\ self.start_point # None
    THEN [self EXCEPT !.selection_rect =
              <<self.start_point[1], self.start_point[2], x, y>>]
    ELSE self

update_selection(self, x, y) ==
    IF self.is_selecting /\ self.start_point # None
    THEN [self EXCEPT !.selection_rect =
              <<Min(self.start_point[1], x), Min(self.start_point[2], y),
                Max(self.start_point[1], x), Max(self.start_point[2], y)>>]
    ELSE self

\* The same without the test that a selection is active.
EndSelectionWhenInactive(self, x, y) ==
    [update_selection([self EXCEPT !.is_selecting = self.start_point # None], x, y)
        EXCEPT !.is_selecting = FALSE]

end_selection(self, x, y) ==
    IF self.is_selecting
    THEN [update_selection(self, x, y) EXCEPT !.is_selecting = FALSE]
    ELSE self

get_selection(self) == self.selection_rect

SelectionManager_clear_selection(self) ==
    [self EXCEPT !.selection_rect = None, !.is_selecting = FALSE, !.start_point = None]

\* The same with an extent equal to the threshold accepted.
HasSelectionFromThreshold(self) ==
    IF self.selection_rect = None THEN FALSE
    ELSE /\ Abs(self.selection_rect[3] - self.selection_rect[1]) >= MinExtent
         /\ Abs(self.selection_rect[4] - self.selection_rect[2]) >= MinExtent

has_selection(self) ==
    IF self.selection_rect = None THEN FALSE
    ELSE /\ Abs(self.selection_rect[3] - self.selection_rect[1]) > MinExtent
         /\ Abs(self.selection_rect[4] - self.selection_rect[2]) > MinExtent

get_selection_size(self) ==
    IF ~has_selection(self) THEN <<0, 0>>
    ELSE <<Abs(self.selection_rect[3] - self.selection_rect[1]),
           Abs(self.selection_rect[4] - self.selection_rect[2])>>

\* The same with only the upper bounds applied.
NormalizeUpperOnly(self, image_width, image_height) ==
    IF self.selection_rect = None THEN self
    ELSE [self EXCEPT !.selection_rect =
              <<Min(self.selection_rect[1], image_width),
                Min(self.selection_rect[2], image_height),
                Min(self.selection_rect[3], image_width),
                Min(self.selection_rect[4], image_height)>>]

normalize_selection(self, image_width, image_height) ==
    IF self.selection_rect = None THEN self
    ELSE [self EXCEPT !.selection_rect =
              <<Max(0, Min(self.selection_rect[1], image_width)),
                Max(0, Min(self.selection_rect[2], image_height)),
                Max(0, Min(self.selection_rect[3], image_width)),
                Max(0, Min(self.selection_rect[4], image_height))>>]

(***************************************************************************)
(* SSpec: a SelectionManager and a caller that makes any sequence of calls *)
(* with pointer coordinates that may lie outside every image.              *)
(***************************************************************************)
MaxCoord == 6

SelCoords == {0 - 1, 0} \cup (MinExtent .. MaxCoord)

\* the image sizes given to normalize_selection
SelSizes == {0, 3, MaxCoord}

SInit ==
    /\ selection_manager = NoSelection
    /\ ocr = None
    /\ heap = <<>>
    /\ history = <<>>
    /\ current_index = 0 - 1
    /\ max_history = EditorMaxHistory
    /\ current_image = None
    /\ original_image = None
    /\ canvas = NoCanvas
    /\ last_text_edit = None
    /\ ret = None
    /\ last_op = NoOp

SFrame == UNCHANGED <<heap, history, current_index, max_history, current_image,
                      original_image, canvas, last_text_edit, ocr, ret>>

\* the state after the call name(given) that left the manager as self and
\* handed back result
SReturn(self, name, given, result) ==
    /\ selection_manager' = self
    /\ last_op' = [NoOp EXCEPT !.op = name, !.rect = given,
                               !.pre = <<selection_manager>>, !.result = result]
    /\ SFrame

StartSelection ==
    \E x \in SelCoords, y \in SelCoords :
        SReturn(start_selection(selection_manager, x, y), "start_selection", <<x, y>>, None)

UpdateSelection ==
    \E x \in SelCoords, y \in SelCoords :
        SReturn(update_selection(selection_manager, x, y), "update_selection", <<x, y>>, None)

EndSelection ==
    \E x \in SelCoords, y \in SelCoords :
        SReturn(end_selection(selection_manager, x, y), "end_selection", <<x, y>>, None)

GetSelection ==
    SReturn(selection_manager, "get_selection", None,
            <<get_selection(selection_manager)>>)

ClearSelection ==
    SReturn(SelectionManager_clear_selection(selection_manager), "clear_selection",
            None, None)

HasSelection ==
    SReturn(selection_manager, "has_selection", None,
            <<has_selection(selection_manager)>>)

GetSelectionSize ==
    SReturn(selection_manager, "get_selection_size", None,
            <<get_selection_size(selection_manager)>>)

NormalizeSelection ==
    \E image_width \in SelSizes, image_height \in SelSizes :
        SReturn(normalize_selection(selection_manager, image_width, image_height),
                "normalize_selection", <<image_width, image_height>>, None)

SNext ==
    \/ StartSelection
    \/ UpdateSelection
    \/ EndSelection
    \/ GetSelection
    \/ ClearSelection
    \/ HasSelection
    \/ GetSelectionSize
    \/ NormalizeSelection

SSpec == SInit /\ [][SNext]_vars

(***************************************************************************)
(* TextEditor.get_system_fonts and TextEditor.match_font.  A font name is  *)
(* a string, a text the sequence of its code points, font_features a       *)
(* record that may lack any of its keys.  Which font files the directories *)
(* hold is not decided by this program: get_system_fonts is the set of     *)
(* lists it can return, _get_font_path the set of paths it can return (the *)
(* path of a file found for font_name is written <<font_name>>; the font   *)
(* cache only remembers an earlier answer).                                *)
(***************************************************************************)
common_fonts ==
    <<"SimHei", "SimSun", "Microsoft YaHei", "KaiTi", "FangSong",
      "Arial", "Times New Roman", "Courier New", "Calibri">>

\* the names of font files that may be found in the font directories
DiskFontNames == {"Arial Bold", "Times New Roman Bold", "DejaVuSans"}

\* the names above in the order sorted() gives them
SortedNames ==
    <<"Arial", "Arial Bold", "Calibri", "Courier New", "DejaVuSans", "FangSong",
      "KaiTi", "Microsoft YaHei", "SimHei", "SimSun", "Times New Roman",
      "Times New Roman Bold">>

Range(s) == { s[i] : i \in 1 .. Len(s) }

\* the list returned when reading the directories raised
FallbackFonts == <<"SimHei", "SimSun", "Arial", "Times New Roman">>

get_system_fonts ==
    { SelectSeq(SortedNames, LAMBDA name : name \in found \cup Range(common_fonts)) :
        found \in SUBSET DiskFontNames }
    \cup {FallbackFonts}

_get_font_path(font_name) == {None, <<font_name>>}

\* font_features.get(key, default)
Get(font_features, key, default) ==
    IF key \in DOMAIN font_features THEN font_features[key] ELSE default

\* any(0x4e00 <= char <= 0x9fff for char in text_content)
has_chinese(text_content) ==
    \E i \in 1 .. Len(text_content) :
        19968 <= text_content[i] /\ text_content[i] <= 40959

\* The preference list without the bold variants.
PreferredWithoutBold(font_features, text_content) ==
    IF has_chinese(text_content)
    THEN <<"SimHei", "Microsoft YaHei", "SimSun", "KaiTi">>
    ELSE <<"Arial", "Times New Roman", "Calibri", "Courier New">>

\* lines 122-131
preferred_fonts(font_features, text_content) ==
    IF has_chinese(text_content)
    THEN (IF Get(font_features, "is_bold", FALSE)
          THEN <<"SimHei", "Microsoft YaHei", "KaiTi">> ELSE <<>>)
         \o <<"SimHei", "Microsoft YaHei", "SimSun", "KaiTi">>
    ELSE (IF Get(font_features, "is_bold", FALSE)
          THEN <<"Arial Bold", "Times New Roman Bold">> ELSE <<>>)
         \o <<"Arial", "Times New Roman", "Calibri", "Courier New">>

\* The font name with the last available font as the fallback.
FontNameFallsToLast(font_features, text_content, returned_fonts) ==
    LET system_fonts == IF returned_fonts = <<>> THEN FallbackFonts ELSE returned_fonts
        preferred    == preferred_fonts(font_features, text_content)
        hits         == { i \in 1 .. Len(preferred) : preferred[i] \in Range(system_fonts) }
    IN  IF hits # {} THEN <<preferred[SetMin(hits)]>>
        ELSE <<system_fonts[Len(system_fonts)]>>

\* lines 116-140: the local font_name, None or <<name>>, when
\* self.get_system_fonts() returned returned_fonts
font_name_of(font_features, text_content, returned_fonts) ==
    LET system_fonts == IF returned_fonts = <<>> THEN FallbackFonts ELSE returned_fonts
        preferred    == preferred_fonts(font_features, text_content)
        hits         == { i \in 1 .. Len(preferred) : preferred[i] \in Range(system_fonts) }
        matched      == IF hits = {} THEN None
                        ELSE <<preferred[SetMin(hits)]>>
    IN  IF matched = None /\ system_fonts # <<>> THEN <<system_fonts[1]>>
        ELSE matched

\* the pairs <<font_path, font_size>> the call can return
match_font(font_features, text_content, returned_fonts) ==
    LET font_name == font_name_of(font_features, text_content, returned_fonts)
        font_size == Get(font_features, "font_size", 24)
    IN  IF font_name = None THEN {<<None, font_size>>}
        ELSE { <<font_path, font_size>> : font_path \in _get_font_path(font_name[1]) }

(***************************************************************************)
(* FSpec: one call of match_font or get_system_fonts on a TextEditor.      *)
(* The list that self.get_system_fonts() hands to match_font is one this   *)
(* class returns, or one another supplier of the list could return: the    *)
(* empty list, a list holding none of the preferred names, and a list     *)
(* holding only some of them, out of the order of preference.              *)
(* last_op.pre is <<the call's inputs>>, last_op.mode the name chosen.     *)
(***************************************************************************)
SuppliedFonts ==
    {<<>>, <<"FangSong", "DejaVuSans">>,
     <<"KaiTi", "SimSun", "Times New Roman Bold", "Arial">>}

TestFontLists == get_system_fonts \cup SuppliedFonts

TestFeatures ==
    { [is_bold |-> is_bold, font_size |-> font_size] :
        is_bold \in BOOLEAN, font_size \in {12, 30} }
    \cup { [is_bold |-> is_bold] : is_bold \in BOOLEAN }
    \cup { [font_size |-> 12] }

\* "", "Hi", a CJK ideograph alone and after a Latin letter, and the code
\* points next to both ends of the CJK range
TestContents ==
    {<<>>, <<72, 105>>, <<20013>>, <<72, 20013>>, <<19968>>, <<40959>>,
     <<19967>>, <<40960>>}

FInit == Init

FFrame == UNCHANGED <<heap, history, current_index, max_history, current_image,
                      original_image, canvas, last_text_edit, selection_manager,
                      ocr, ret>>

CallMatchFont ==
    /\ last_op.op = "none"
    /\ \E font_features \in TestFeatures, text_content \in TestContents,
          returned_fonts \in TestFontLists :
         LET font_name == font_name_of(font_features, text_content, returned_fonts)
         IN  \E result \in match_font(font_features, text_content, returned_fonts) :
               /\ last_op' = [NoOp EXCEPT !.op = "match_font", !.ran = TRUE,
                                  !.mode = IF font_name = None THEN "" ELSE font_name[1],
                                  !.pre = <<[font_features |-> font_features,
                                             text_content |-> text_content,
                                             system_fonts |-> returned_fonts]>>,
                                  !.result = <<result>>]
               /\ FFrame

CallGetSystemFonts ==
    /\ last_op.op = "none"
    /\ \E fonts \in get_system_fonts :
         /\ last_op' = [NoOp EXCEPT !.op = "get_system_fonts", !.ran = TRUE,
                                    !.result = <<fonts>>]
         /\ FFrame

FNext ==
    \/ CallMatchFont
    \/ CallGetSystemFonts

FSpec == FInit /\ [][FNext]_vars

(***************************************************************************)
(* Properties of the transforms (PSpec).                                   *)
(***************************************************************************)
InImage  == last_op.pre[1]
OutImage == heap[ret[1]]

Stitched == last_op.op = "vertical_delete_and_stitch" /\ ret # None
Filled   == last_op.op = "smart_fill" /\ ret # None

\* the band of the call lies in the image: 0 <= y1 < y2 <= height
ValidBand ==
    /\ 0 <= last_op.rect[2]
    /\ last_op.rect[2] < last_op.rect[4]
    /\ last_op.rect[4] <= InImage.height

LawHeight ==
    (IF last_op.rect[2] > 0 THEN last_op.rect[2] ELSE 0)
    + (IF last_op.rect[4] < InImage.height THEN InImage.height - last_op.rect[4] ELSE 0)

WholeBand == last_op.rect[2] = 0 /\ last_op.rect[4] = InImage.height

\* C8 as stated: for every valid band y1 < y2 the output height is
\* (y1 if y1 > 0 else 0) + (height - y2 if y2 < height else 0) and the output
\* width is the input width.
C8_HeightLawEveryBand ==
    (Stitched /\ ValidBand) =>
        /\ OutImage.height = LawHeight
        /\ OutImage.width = InImage.width

\* C8 amended: the height law holds for every valid band that leaves at least
\* one row; a band covering every row returns the input's height unchanged.
\* The width is the input width in both cases.
C8_HeightLaw ==
    (Stitched /\ ValidBand) =>
        /\ OutImage.width = InImage.width
        /\ ~WholeBand => OutImage.height = LawHeight
        /\ WholeBand => OutImage.height = InImage.height

\* a band strictly inside the image was removed: rows above and below remain
C8_Witness ==
    /\ Stitched /\ ValidBand
    /\ last_op.rect[2] > 0
    /\ last_op.rect[4] < InImage.height
    /\ OutImage.height = InImage.height - (last_op.rect[4] - last_op.rect[2])

InRect(p, rect) ==
    /\ rect[1] <= p[1] /\ p[1] < rect[3]
    /\ rect[2] <= p[2] /\ p[2] < rect[4]

\* the rectangle of the call is non-degenerate after clamping to the image
NonDegenerate ==
    /\ Clamp(last_op.rect[1], InImage.width) < Clamp(last_op.rect[3], InImage.width)
    /\ Clamp(last_op.rect[2], InImage.height) < Clamp(last_op.rect[4], InImage.height)

GivenColor == IF last_op.color = None THEN White ELSE last_op.color

\* C9: in mode 'color' with a rectangle that is non-degenerate after clamping,
\* every pixel (x, y) with x1 <= x < x2 and y1 <= y < y2 becomes the colour
\* (white when none is given), every other pixel is unchanged and the
\* dimensions are kept.
C9_ColorFillExact ==
    (Filled /\ last_op.mode = "color" /\ NonDegenerate) =>
        /\ OutImage.width = InImage.width
        /\ OutImage.height = InImage.height
        /\ \A p \in PixelsOf(InImage) :
              OutImage.px[p] = IF InRect(p, last_op.rect) THEN GivenColor
                               ELSE InImage.px[p]

\* a colour fill of a rectangle that is not square, with pixels inside it and
\* pixels outside it, all of which differed from the colour before
C9_Witness ==
    /\ Filled /\ last_op.mode = "color" /\ NonDegenerate
    /\ last_op.color = Red
    /\ last_op.rect[3] - last_op.rect[1] # last_op.rect[4] - last_op.rect[2]
    /\ \E p \in PixelsOf(InImage) : InRect(p, last_op.rect) /\ OutImage.px[p] # InImage.px[p]
    /\ \E p \in PixelsOf(InImage) : ~InRect(p, last_op.rect)

\* C9, default colour: a colour fill without a colour paints white
C9_WitnessDefault ==
    /\ Filled /\ last_op.mode = "color" /\ NonDegenerate
    /\ last_op.color = None
    /\ \E p \in PixelsOf(InImage) : InImage.px[p] # White /\ OutImage.px[p] = White

DegenerateGiven ==
    last_op.rect[1] >= last_op.rect[3] \/ last_op.rect[2] >= last_op.rect[4]

\* C10: smart_fill returns an image identical to its input (pixels and
\* dimensions) in every mode when the given rectangle has x1 >= x2 or y1 >= y2,
\* and for every rectangle when the mode is none of the four known modes.
C10_FillNoOp ==
    (Filled /\ (DegenerateGiven \/ last_op.mode \notin FillModes)) =>
        OutImage = InImage

\* an unknown mode was given a rectangle with pixels in it on an image that
\* inpainting would have changed
C10_Witness ==
    /\ Filled /\ last_op.mode \notin FillModes /\ NonDegenerate
    /\ OutImage = InImage
    /\ \E p, q \in PixelsOf(InImage) : InImage.px[p] # InImage.px[q]

\* a known mode was given a degenerate rectangle lying outside the image
C10_WitnessDegenerate ==
    /\ Filled /\ last_op.mode = "color" /\ DegenerateGiven
    /\ last_op.rect[1] > InImage.width
    /\ OutImage = InImage

(***************************************************************************)
(* Properties of HistoryManager (HSpec).                                   *)
(***************************************************************************)
Before  == last_op.store[1]
Entries == EntryValues(heap, history)

\* the entries a save_state keeps before it appends
KeptBefore ==
    IF Before.cursor < Len(Before.entries) - 1
    THEN SubSeq(Before.entries, 1, Before.cursor + 1)
    ELSE Before.entries

\* save_state on a cursor below the last index drops the entries after the
\* cursor, appends the image and puts the cursor on it
C2_Branching ==
    (last_op.op = "save_state" /\ Before.cursor < Len(Before.entries) - 1) =>
        /\ Entries = SubSeq(Before.entries, 1, Before.cursor + 1) \o last_op.pre
        /\ current_index = Len(history) - 1
        /\ ~can_redo(Self)

\* save_state(s1); save_state(s2); undo(); save_state(s3) on an empty store
\* leaves [s1, s3] with the cursor at s3
C2_Scenario ==
    Len(last_op.calls) = Len(ScenarioCalls) =>
        /\ Entries = <<last_op.calls[1][2], last_op.calls[4][2]>>
        /\ current_index = 1
        /\ ~can_redo(Self)

\* C2 as stated: history linearity, for every store: the branching rule, and in
\* particular the scenario save_state(s1); save_state(s2); undo();
\* save_state(s3) on an empty store leaves exactly [s1, s3], cursor at s3.
C2_LinearityAnyBound == C2_Branching /\ C2_Scenario

\* C2 amended: the branching rule holds for every store; the scenario leaves
\* exactly [s1, s3] with the cursor at s3 when max_history >= 2.
C2_Linearity == C2_Branching /\ (max_history >= 2 => C2_Scenario)

\* the scenario ran with three different images
C2_Witness ==
    /\ Len(last_op.calls) = Len(ScenarioCalls)
    /\ max_history >= 2
    /\ last_op.calls[1][2] # last_op.calls[2][2]
    /\ last_op.calls[2][2] # last_op.calls[4][2]
    /\ last_op.calls[1][2] # last_op.calls[4][2]
    /\ Before.cursor < Len(Before.entries) - 1

\* C3: with max_history >= 1 the number of entries never exceeds max_history,
\* and a save_state that overflows the bound evicts exactly the oldest entry
\* and keeps the others in order.
C3_BoundedHistory ==
    max_history >= 1 =>
        /\ Len(history) <= max_history
        /\ (last_op.op = "save_state" /\ Len(KeptBefore) + 1 > max_history) =>
              Entries = Tail(KeptBefore \o last_op.pre)

\* a full history of three or more different neighbours overflowed
C3_Witness ==
    /\ last_op.op = "save_state"
    /\ max_history >= 3
    /\ Len(KeptBefore) = max_history
    /\ Before.entries[1] # Before.entries[2]
    /\ Before.entries[2] # Before.entries[3]
    /\ Entries[1] = Before.entries[2]

\* C4: can_undo() is false right after reset(img), and can_redo() is false
\* right after every save_state.
C4_Boundary ==
    /\ last_op.op = "reset" => ~can_undo(Self)
    /\ last_op.op = "save_state" => ~can_redo(Self)

\* a save_state evicted the oldest entry of a full history
C4_Witness ==
    /\ last_op.op = "save_state"
    /\ max_history >= 2
    /\ Len(Before.entries) = max_history
    /\ Before.cursor = max_history - 1
    /\ ~can_redo(Self)

\* reset(img) on a history in which undo was possible
C4_WitnessReset ==
    /\ last_op.op = "reset"
    /\ last_op.pre # None
    /\ Before.cursor > 0
    /\ ~can_undo(Self)

\* C5: with max_history >= 1 the cursor is -1 exactly when the history is
\* empty, and otherwise lies on a stored entry.
C5_CursorInvariant ==
    max_history >= 1 =>
        /\ (current_index = 0 - 1) <=> (history = <<>>)
        /\ history # <<>> => (0 <= current_index /\ current_index <= Len(history) - 1)

\* the cursor moved back after a save_state on a full history
C5_Witness ==
    /\ last_op.op = "undo"
    /\ max_history >= 2
    /\ Len(history) = max_history
    /\ Before.cursor = max_history - 1
    /\ current_index = max_history - 2

JustReturned == last_op.op \in {"undo", "redo", "get_current_state"} /\ ret # None

\* C6: entries are independent copies.  No entry shares its object with
\* another entry, with the caller's live image or with the image handed back;
\* the image handed back is a new object holding the value of the entry at the
\* cursor; a stored entry holds the value of the image given to save_state;
\* and a change made in place to the live image leaves every entry's value
\* as it was.
C6_IndependentCopies ==
    /\ \A i, j \in 1 .. Len(history) : i # j => history[i] # history[j]
    /\ current_image # None => current_image[1] \notin SeqIds(history)
    /\ ret # None => ret[1] \notin SeqIds(history)
    /\ JustReturned => /\ ret # current_image
                       /\ heap[ret[1]] = heap[history[current_index + 1]]
    /\ last_op.op = "save_state" => Entries[Len(Entries)] = last_op.pre[1]
    /\ last_op.op = "draw" => Entries = Before.entries

\* the live image was changed in place while an entry held the value it had
C6_Witness ==
    /\ last_op.op = "draw"
    /\ Len(history) >= 2
    /\ \E i \in 1 .. Len(history) : Entries[i] = last_op.pre[1]
    /\ heap[current_image[1]] # last_op.pre[1]

(***************************************************************************)
(* Properties of the editor (Spec).                                        *)
(***************************************************************************)
Current == heap[current_image[1]]
Loaded  == heap[original_image[1]]

\* the undo directly follows an edit that went ahead
UndoAfterEdit == last_op.op = "undo" /\ last_op.prev # None

\* C1: when a mutating editor action has gone ahead, an undo directly after
\* it makes the current image the image that was current just before that
\* action.
C1_UndoRestoresImageBeforeEdit ==
    UndoAfterEdit => Current = last_op.prev[1].pre[1]

\* the fill went ahead on a freshly loaded image, in mode 'color', over a
\* rectangle with columns and rows inside the image
FreshColorFill ==
    /\ last_op.op = "smart_fill" /\ last_op.ran
    /\ last_op.first /\ last_op.mode = "color"
    /\ 0 <= last_op.rect[1] /\ last_op.rect[1] < last_op.rect[3]
    /\ last_op.rect[3] <= Loaded.width
    /\ 0 <= last_op.rect[2] /\ last_op.rect[2] < last_op.rect[4]
    /\ last_op.rect[4] <= Loaded.height

UndoAfterFreshColorFill ==
    /\ UndoAfterEdit
    /\ last_op.prev[1].op = "smart_fill"
    /\ last_op.prev[1].first /\ last_op.prev[1].mode = "color"

\* C7: on a freshly loaded image one colour fill of a non-degenerate
\* in-bounds rectangle makes every pixel of the rectangle the fill colour
\* (white when none was picked) and leaves the rest as loaded; an undo
\* directly after the fill makes the current image equal to the loaded one.
C7_FillThenUndo ==
    /\ FreshColorFill =>
          /\ Current.width = Loaded.width /\ Current.height = Loaded.height
          /\ \A p \in PixelsOf(Loaded) :
                Current.px[p] = IF InRect(p, last_op.rect)
                                THEN (IF last_op.color = None THEN White ELSE last_op.color)
                                ELSE Loaded.px[p]
    /\ UndoAfterFreshColorFill => Current = Loaded

\* an undo was asked for right after a colour fill that changed the freshly
\* loaded image
C7_Witness ==
    /\ UndoAfterFreshColorFill
    /\ last_op.prev[1].changed
    /\ last_op.prev[1].pre[1] = Loaded

(***************************************************************************)
(* The no-op policy of vertical_delete_and_stitch (PSpec).                 *)
(***************************************************************************)
ClampedY1 == Max(0, Min(last_op.rect[2], InImage.height))
ClampedY2 == Max(0, Min(last_op.rect[4], InImage.height))

\* the height the call computes for the stitched image
ComputedHeight ==
    (IF ClampedY1 > 0 THEN ClampedY1 ELSE 0)
    + (IF ClampedY2 < InImage.height THEN InImage.height - ClampedY2 ELSE 0)

\* C11: vertical_delete_and_stitch returns an unmodified copy of its input
\* when y1 >= y2 after clamping both into [0, height], and when the computed
\* height is <= 0, which for y1 < y2 is exactly when the band covers every
\* row.
C11_StitchNoOp ==
    Stitched =>
        /\ ClampedY1 >= ClampedY2 => OutImage = InImage
        /\ ComputedHeight <= 0 => OutImage = InImage
        /\ ClampedY1 < ClampedY2 =>
             (ComputedHeight <= 0 <=> (ClampedY1 = 0 /\ ClampedY2 = InImage.height))

\* a band given in order that is empty only after clamping: it lies wholly
\* below the image, which has more than one row
C11_Witness ==
    /\ Stitched
    /\ last_op.rect[2] < last_op.rect[4]
    /\ last_op.rect[2] >= InImage.height
    /\ InImage.height > 1
    /\ OutImage = InImage

\* a band that covers every row of an image of more than one row
C11_WitnessWholeBand ==
    /\ Stitched
    /\ ClampedY1 = 0 /\ ClampedY2 = InImage.height
    /\ last_op.rect[4] > InImage.height
    /\ InImage.height > 1
    /\ OutImage = InImage

(***************************************************************************)
(* Properties of the TextEditor and ImageProcessor calls (TSpec).          *)
(***************************************************************************)
Extracted == last_op.op = "extract_font_features"

\* the bounds of the bbox given to the call, clamped to the image given
BoxX1 == Max(0, Min(SetMin(XCoords(last_op.rect)), last_op.pre[1].width))
BoxX2 == Max(0, Min(SetMax(XCoords(last_op.rect)), last_op.pre[1].width))
BoxY1 == Max(0, Min(SetMin(YCoords(last_op.rect)), last_op.pre[1].height))
BoxY2 == Max(0, Min(SetMax(YCoords(last_op.rect)), last_op.pre[1].height))

\* the image or the bbox is absent, or the clamped bbox covers no pixel
NothingToSample ==
    \/ last_op.pre = None
    \/ last_op.rect = None
    \/ BoxX1 = BoxX2
    \/ BoxY1 = BoxY2

DefaultFeatures ==
    [font_size |-> 24, font_color |-> <<0, 0, 0>>, is_bold |-> FALSE,
     char_spacing |-> 2, bbox |-> None]

\* C12: extract_font_features returns exactly font_size 24, font_color
\* (0, 0, 0), is_bold false, char_spacing 2 and no source bbox when the image
\* or the bbox is absent and when the bbox, clamped to the image, covers zero
\* area.
C12_FontFeatureDefault ==
    (Extracted /\ NothingToSample) => last_op.result[1] = DefaultFeatures

\* a bbox given with positive extents that lies wholly outside an image of
\* more than one pixel
C12_Witness ==
    /\ Extracted
    /\ last_op.pre # None /\ last_op.rect # None
    /\ SetMin(XCoords(last_op.rect)) < SetMax(XCoords(last_op.rect))
    /\ SetMin(YCoords(last_op.rect)) < SetMax(YCoords(last_op.rect))
    /\ SetMin(XCoords(last_op.rect)) >= last_op.pre[1].width
    /\ last_op.pre[1].width > 1
    /\ last_op.result[1] = DefaultFeatures

\* the image was absent
C12_WitnessNoImage ==
    /\ Extracted
    /\ last_op.pre = None /\ last_op.rect # None
    /\ last_op.result[1] = DefaultFeatures

(***************************************************************************)
(* Properties of SelectionManager (SSpec).                                 *)
(***************************************************************************)
Held    == selection_manager.selection_rect
WasHeld == last_op.pre[1].selection_rect
WasActive == last_op.pre[1].is_selecting
WasStart  == last_op.pre[1].start_point

\* the bounding box of the points a and b
BoundingBox(a, b) ==
    <<IF a[1] <= b[1] THEN a[1] ELSE b[1], IF a[2] <= b[2] THEN a[2] ELSE b[2],
      IF a[1] >= b[1] THEN a[1] ELSE b[1], IF a[2] >= b[2] THEN a[2] ELSE b[2]>>

\* C13: while a selection is active, update_selection(x, y) sets the
\* rectangle to (min(sx,x), min(sy,y), max(sx,x), max(sy,y)) for the start
\* point (sx, sy), so x1 <= x2 and y1 <= y2 and the rectangle is the one a
\* drag from (x, y) to (sx, sy) gives; when no selection is active the call
\* changes nothing.
C13_SelectionUpdate ==
    last_op.op = "update_selection" =>
        IF WasActive
        THEN /\ Held = BoundingBox(WasStart, last_op.rect)
             /\ Held = BoundingBox(last_op.rect, WasStart)
             /\ Held[1] <= Held[3] /\ Held[2] <= Held[4]
             /\ selection_manager.is_selecting
             /\ selection_manager.start_point = WasStart
        ELSE selection_manager = last_op.pre[1]

\* an update during a drag that goes left and down from the start point
C13_Witness ==
    /\ last_op.op = "update_selection"
    /\ WasActive
    /\ last_op.rect[1] < WasStart[1]
    /\ last_op.rect[2] > WasStart[2]
    /\ Held = <<last_op.rect[1], WasStart[2], WasStart[1], last_op.rect[2]>>

\* C14: start_selection(x, y) makes the selection active with start point
\* (x, y) and no rectangle; end_selection(x, y) on an active selection sets
\* the rectangle as update does and makes the selection inactive; on an
\* inactive selection update_selection and end_selection leave the manager
\* as it was, and only start_selection makes it active again;
\* clear_selection leaves no rectangle, no start point and no active flag.
C14_SelectionLifecycle ==
    /\ last_op.op = "start_selection" =>
         /\ selection_manager.is_selecting
         /\ selection_manager.start_point = last_op.rect
         /\ Held = None
    /\ (last_op.op = "end_selection" /\ WasActive) =>
         /\ Held = BoundingBox(WasStart, last_op.rect)
         /\ ~selection_manager.is_selecting
         /\ selection_manager.start_point = WasStart
    /\ (last_op.op \in {"update_selection", "end_selection"} /\ ~WasActive) =>
         selection_manager = last_op.pre[1]
    /\ (last_op.op \notin {"none", "start_selection"} /\ ~WasActive) =>
         ~selection_manager.is_selecting
    /\ last_op.op = "clear_selection" =>
         selection_manager = [selection_rect |-> None, is_selecting |-> FALSE,
                              start_point |-> None]

\* end_selection was called on a finished selection with a point that would
\* have given another rectangle
C14_Witness ==
    /\ last_op.op = "end_selection"
    /\ ~WasActive
    /\ WasHeld # None
    /\ WasStart # None
    /\ BoundingBox(WasStart, last_op.rect) # WasHeld
    /\ Held = WasHeld

\* a rectangle was held when start_selection was called
C14_WitnessStart ==
    /\ last_op.op = "start_selection"
    /\ WasHeld # None
    /\ Held = None

\* a rectangle is held and both its extents exceed 5 pixels
ValidSelection ==
    /\ Held # None
    /\ Held[3] - Held[1] > 5
    /\ Held[4] - Held[2] > 5

C15_WitnessClick ==
    /\ last_op.op = "get_selection_size"
    /\ Held # None
    /\ Held[1] = Held[3] /\ Held[2] = Held[4]
    /\ last_op.result[1] = <<0, 0>>

\* the rectangle r lies in [0, w] x [0, h]
WithinImage(r, w, h) ==
    /\ 0 <= r[1] /\ r[1] <= w /\ 0 <= r[3] /\ r[3] <= w
    /\ 0 <= r[2] /\ r[2] <= h /\ 0 <= r[4] /\ r[4] <= h

\* C16: normalize_selection(width, height) leaves a held rectangle in
\* [0, width] x [0, height] with x1 <= x2 and y1 <= y2; a rectangle already
\* inside the bounds is unchanged, so that a second call changes nothing;
\* nothing but the rectangle changes, and with no rectangle held the call
\* changes nothing.
C16_SelectionNormalization ==
    last_op.op = "normalize_selection" =>
        IF WasHeld = None THEN selection_manager = last_op.pre[1]
        ELSE /\ WithinImage(Held, last_op.rect[1], last_op.rect[2])
             /\ Held[1] <= Held[3] /\ Held[2] <= Held[4]
             /\ WithinImage(WasHeld, last_op.rect[1], last_op.rect[2]) => Held = WasHeld
             /\ normalize_selection(selection_manager, last_op.rect[1], last_op.rect[2])
                  = selection_manager
             /\ selection_manager.is_selecting = WasActive
             /\ selection_manager.start_point = WasStart

\* a rectangle that began left of the image and ended right of it and below
\* it was normalized
C16_Witness ==
    /\ last_op.op = "normalize_selection"
    /\ WasHeld # None
    /\ WasHeld[1] < 0
    /\ WasHeld[3] > last_op.rect[1]
    /\ WasHeld[4] > last_op.rect[2]
    /\ last_op.rect[1] > 0
    /\ Held = <<0, Max(0, Min(WasHeld[2], last_op.rect[2])), last_op.rect[1], last_op.rect[2]>>

(***************************************************************************)
(* Properties of Spec: selections and rejected actions.                    *)
(***************************************************************************)

\* the editor actions that act on the selection
SelectionEdits == {"vertical_delete_stitch", "smart_fill",
                   "delete_text_in_selection", "add_text_in_selection"}

\* the selection the last action found is narrower or lower than the
\* extent has_selection asks of a valid selection
SubThreshold ==
    /\ last_op.rect # None
    /\ \/ last_op.rect[3] - last_op.rect[1] <= MinExtent
       \/ last_op.rect[4] - last_op.rect[2] <= MinExtent

\* C17: an editor action (stitch, fill, delete text, add text) invoked with
\* a selection whose width or height is below the 5-pixel threshold leaves
\* the current image as it was before the action.
C17_SubThresholdNeverEdits ==
    (last_op.op \in SelectionEdits /\ (~last_op.ran \/ SubThreshold))
        => (IF last_op.pre = None THEN current_image = None
                                  ELSE Current = last_op.pre[1])

\* the last action was an editing action that returned before its transform
RejectedEdit == last_op.op \in EditOps /\ ~last_op.ran

\* C18: after an editing action that was rejected or abandoned (no image,
\* no selection, invalid selection, dialog cancelled, empty text) the
\* current image, the stored history entries and the history cursor are the
\* ones from before the action, so that only an action that runs its
\* transform adds a history entry.
C18_RejectedChangesNothing ==
    RejectedEdit =>
        /\ IF last_op.pre = None THEN current_image = None
                                 ELSE Current = last_op.pre[1]
        /\ Snapshot = last_op.store

\* a fill whose dialog was cancelled, with an image, a selection and an
\* earlier edit in the history
C18_Witness ==
    /\ RejectedEdit
    /\ last_op.op = "smart_fill"
    /\ current_image # None
    /\ canvas.selection_rect # None
    /\ Len(history) >= 2
    /\ Snapshot = last_op.store

(***************************************************************************)
(* Properties of OSpec                                                     *)
(***************************************************************************)
Recognized == last_op.op = "recognize_text"

\* the call found no engine, or the engine raised
DetectionFailed == Recognized /\ last_op.mode \in {"unavailable", "raised"}

\* what a call hands back when the engine ran on image and found no text
FoundNothing(image) ==
    recognize_text(PaddleOCR, image, [raised |-> FALSE, result |-> <<None>>])

\* C19: a text-detection call that failed (no engine, or the engine raised)
\* hands its caller something other than what a call that ran and found no
\* text hands back, and after any detection call the current image and the
\* history are the ones from before it.
C19_DetectionFailureDistinct ==
    Recognized =>
        /\ DetectionFailed => last_op.result[1] # FoundNothing(heap[current_image[1]])
        /\ last_op.pre # None => heap[current_image[1]] = last_op.pre[1]
        /\ Snapshot = last_op.store

(***************************************************************************)
(* Properties of TSpec: the transforms on image objects                    *)
(***************************************************************************)
RegionTransforms == {"vertical_delete_and_stitch", "smart_fill", "delete_text",
                     "replace_text", "add_text"}

Transformed == last_op.op \in RegionTransforms

\* C20: every region transform called on an image returns an image object
\* other than the one passed in, and the image passed in has the pixels and
\* the dimensions it had before the call.
C20_TransformsKeepInput ==
    Transformed =>
        /\ ret # None
        /\ ret # current_image
        /\ heap[current_image[1]] = last_op.pre[1]

\* a text drawn by add_text over pixels of another colour
C20_Witness ==
    /\ last_op.op = "add_text"
    /\ last_op.ran
    /\ ret # current_image
    /\ heap[ret[1]] # heap[current_image[1]]
    /\ heap[current_image[1]] = last_op.pre[1]

\* replace_text drawing into the image delete_text returned
C20_WitnessReplace ==
    /\ last_op.op = "replace_text"
    /\ last_op.ran
    /\ ret # current_image
    /\ heap[current_image[1]] = last_op.pre[1]

\* a no-op path: a fill of an unknown mode returns a copy
C20_WitnessNoOp ==
    /\ last_op.op = "smart_fill"
    /\ last_op.mode = "blur"
    /\ ~last_op.ran
    /\ ret # current_image
    /\ heap[ret[1]] = heap[current_image[1]]

(***************************************************************************)
(* Properties of FSpec                                                     *)
(***************************************************************************)
Matched == last_op.op = "match_font"

GivenFeatures == last_op.pre[1].font_features
GivenContent  == last_op.pre[1].text_content
GivenFonts    == last_op.pre[1].system_fonts

ChosenName   == last_op.mode
ReturnedPath == last_op.result[1][1]
ReturnedSize == last_op.result[1][2]

\* the size the features carry, 24 when they carry none
FeatureSize ==
    IF "font_size" \in DOMAIN GivenFeatures THEN GivenFeatures.font_size ELSE 24

\* no name of the preference list is in the list of available fonts
NonePreferred ==
    LET preferred == preferred_fonts(GivenFeatures, GivenContent)
    IN  \A i \in 1 .. Len(preferred) : preferred[i] \notin Range(GivenFonts)

C21_WitnessFirstEntry ==
    /\ Matched
    /\ GivenFonts # <<>>
    /\ NonePreferred
    /\ ChosenName = GivenFonts[1]

(***************************************************************************)
(* Properties of HistoryManager (HSpec): the steps of undo and redo.       *)
(***************************************************************************)
\* the image handed back is a copy of the entry at the cursor
ReturnedCopyAtCursor ==
    /\ ret # None
    /\ ret[1] \notin SeqIds(history)
    /\ heap[ret[1]] = Entries[current_index + 1]

\* the state after an undo or a redo, against the store before it
UndoRedoStep ==
    /\ last_op.op = "undo" =>
          IF Before.cursor > 0
          THEN current_index = Before.cursor - 1 /\ ReturnedCopyAtCursor
          ELSE current_index = Before.cursor /\ ret = None
    /\ last_op.op = "redo" =>
          IF Before.cursor < Len(Before.entries) - 1
          THEN current_index = Before.cursor + 1 /\ ReturnedCopyAtCursor
          ELSE current_index = Before.cursor /\ ret = None
    /\ last_op.op \in {"undo", "redo"} => Entries = Before.entries

\* a redo that directly follows an undo that stepped ends on the cursor and
\* the entries from before that undo
UndoRedoRoundTrip ==
    (last_op.op = "undo" /\ Before.cursor > 0 /\ last_op'.op = "redo") =>
        /\ current_index' = Before.cursor
        /\ EntryValues(heap', history') = Before.entries

\* C22: undo when can_undo() holds lowers the cursor by exactly one and
\* returns a copy of the entry at the new cursor; redo when can_redo() holds
\* raises it by exactly one and returns a copy of the entry at the new
\* cursor; when the step is not possible the call returns None and leaves
\* the cursor unchanged; undo and redo always leave the sequence of entries
\* unchanged, and undo followed by redo returns the store to the same
\* cursor and entries.
C22_UndoRedoStepAndFrame == []UndoRedoStep /\ [][UndoRedoRoundTrip]_vars

\* a redo stepped onto an entry that differs from the one it left
C22_Witness ==
    /\ last_op.op = "redo"
    /\ Before.cursor < Len(Before.entries) - 1
    /\ current_index = Before.cursor + 1
    /\ Entries[current_index + 1] # Entries[current_index]
    /\ ReturnedCopyAtCursor

\* an undo stepped onto an entry that differs from the one it left
C22_WitnessUndo ==
    /\ last_op.op = "undo"
    /\ Before.cursor > 0
    /\ current_index = Before.cursor - 1
    /\ Entries[current_index + 1] # Entries[current_index + 2]
    /\ ReturnedCopyAtCursor

\* an undo and a redo that could not step
C22_WitnessNoStep ==
    /\ last_op.op \in {"undo", "redo"}
    /\ history # <<>>
    /\ current_index = Before.cursor
    /\ ret = None

(***************************************************************************)
(* Properties of the editor (Spec): redo after undo.                       *)
(***************************************************************************)
\* a redo directly follows an undo that directly followed an edit: the
\* current image is the image that edit produced
RedoRestoresEdit ==
    (UndoAfterEdit /\ last_op.ran /\ last_op'.op = "redo") =>
        heap'[current_image'[1]] = last_op.prev[1].result[1]

\* C23: after a mutating action that produced image P and one undo, a redo
\* directly after it sets the current image back to P.
C23_RedoRestoresUndoneEdit == [][RedoRestoresEdit]_vars

(***************************************************************************)
(* Properties of HistoryManager (HSpec): the cursor after a save.          *)
(***************************************************************************)
\* the value of the image get_current_state() hands back, None or <<value>>
CurrentStateValue ==
    LET self == get_current_state(Self)
    IN  IF self.result = None THEN None ELSE <<self.heap[self.result[1]]>>

\* C24: for max_history >= 1, right after save_state(img) the cursor is the
\* last index of the history and get_current_state() has the pixels of img,
\* also when the save dropped a redo branch or evicted the oldest entry.
C24_CursorFollowsSave ==
    (max_history >= 1 /\ last_op.op = "save_state") =>
        /\ current_index = Len(history) - 1
        /\ CurrentStateValue = last_op.pre

\* a save evicted the oldest entry of a full history of other images
C24_Witness ==
    /\ last_op.op = "save_state"
    /\ max_history >= 2
    /\ Len(KeptBefore) = max_history
    /\ \A i \in 1 .. Len(Before.entries) : Before.entries[i] # last_op.pre[1]
    /\ current_index = Len(history) - 1
    /\ CurrentStateValue = last_op.pre

\* a save dropped a redo branch of other images
C24_WitnessBranch ==
    /\ last_op.op = "save_state"
    /\ Before.cursor >= 0
    /\ Before.cursor < Len(Before.entries) - 1
    /\ \A i \in 1 .. Len(Before.entries) : Before.entries[i] # last_op.pre[1]
    /\ CurrentStateValue = last_op.pre

(***************************************************************************)
(* Properties of the transforms (PSpec): the content of a stitch and of    *)
(* the border fills.                                                       *)
(***************************************************************************)
\* the columns a caller may give with the band of the call
AnyColumns == ((0 - 1) .. (InImage.width + 1)) \X ((0 - 1) .. (InImage.width + 1))

\* C25: for a band 0 <= y1 < y2 <= height that leaves at least one row, row
\* i of the output is row i of the input for i < y1 and row i + (y2 - y1) of
\* the input for i >= y1, over the input's full width: the rows that remain
\* keep their order, no row of the band and no background row is in the
\* output; and the output is the same whatever x1 and x2 are.
C25_StripDeleteContent ==
    (Stitched /\ ValidBand /\ ~WholeBand) =>
        LET y1 == last_op.rect[2]
            y2 == last_op.rect[4]
        IN  /\ OutImage.width = InImage.width
            /\ OutImage.height = InImage.height - (y2 - y1)
            /\ DOMAIN OutImage.px = Dom(OutImage.width, OutImage.height)
            /\ \A p \in Dom(OutImage.width, OutImage.height) :
                  OutImage.px[p] = IF p[2] < y1 THEN InImage.px[p]
                                   ELSE InImage.px[<<p[1], p[2] + (y2 - y1)>>]
            /\ \A xs \in AnyColumns :
                  vertical_delete_and_stitch(InImage, <<xs[1], y1, xs[2], y2>>) = OutImage

\* the middle row of three different rows was removed, with x1 > x2
C25_Witness ==
    /\ Stitched /\ ValidBand
    /\ InImage.height = 3 /\ last_op.rect[2] = 1 /\ last_op.rect[4] = 2
    /\ last_op.rect[1] > last_op.rect[3]
    /\ InImage.px[<<0, 0>>] # InImage.px[<<0, 1>>]
    /\ InImage.px[<<0, 1>>] # InImage.px[<<0, 2>>]
    /\ InImage.px[<<0, 0>>] # InImage.px[<<0, 2>>]
    /\ OutImage.height = 2
    /\ OutImage.px[<<0, 0>>] = InImage.px[<<0, 0>>]
    /\ OutImage.px[<<0, 1>>] = InImage.px[<<0, 2>>]

\* the rectangle of the call, clamped to the image
CX1 == Clamp(last_op.rect[1], InImage.width)
CY1 == Clamp(last_op.rect[2], InImage.height)
CX2 == Clamp(last_op.rect[3], InImage.width)
CY2 == Clamp(last_op.rect[4], InImage.height)

InClamped(p) == CX1 <= p[1] /\ p[1] < CX2 /\ CY1 <= p[2] /\ p[2] < CY2

\* the pixels of the image next to a side of the clamped rectangle: the row
\* above, the row below, the column to the left and the column to the right
BorderSample ==
    { p \in PixelsOf(InImage) :
        \/ (p[2] = CY1 - 1 \/ p[2] = CY2) /\ CX1 <= p[1] /\ p[1] < CX2
        \/ (p[1] = CX1 - 1 \/ p[1] = CX2) /\ CY1 <= p[2] /\ p[2] < CY2 }

\* the sum of channel k of image im over the pixels S
RECURSIVE SumChannel(_, _, _)
SumChannel(im, S, k) ==
    IF S = {} THEN 0
    ELSE LET p == CHOOSE q \in S : TRUE
         IN  im.px[p][k] + SumChannel(im, S \ {p}, k)

\* c is the mean of the sample in every channel, its fraction dropped
IsSampleMean(c) ==
    \A k \in 1 .. 3 :
        /\ c[k] \in 0 .. 255
        /\ c[k] * Cardinality(BorderSample) <= SumChannel(InImage, BorderSample, k)
        /\ SumChannel(InImage, BorderSample, k) < (c[k] + 1) * Cardinality(BorderSample)

TouchesAllEdges ==
    CX1 = 0 /\ CY1 = 0 /\ CX2 = InImage.width /\ CY2 = InImage.height

\* the output is the input with every pixel of the clamped rectangle c
FilledWith(c) ==
    /\ OutImage.width = InImage.width
    /\ OutImage.height = InImage.height
    /\ \A p \in PixelsOf(InImage) :
          OutImage.px[p] = IF InClamped(p) THEN c ELSE InImage.px[p]

\* C26: in mode 'average' with a rectangle that is non-degenerate after
\* clamping, the sample is the in-bounds pixels of row y1-1 and row y2 over
\* columns [x1, x2) and of column x1-1 and column x2 over rows [y1, y2),
\* without the four diagonal corners; every pixel of the rectangle becomes
\* the per-channel mean of the sample, an integer in 0..255 (the fraction
\* dropped), and the pixels outside it are unchanged; a rectangle that
\* touches all four image edges leaves the image unchanged.
C26_AverageFill ==
    (Filled /\ last_op.mode = "average" /\ NonDegenerate) =>
        /\ BorderSample # {} => (\E c \in {OutImage.px[<<CX1, CY1>>]} :
                                    IsSampleMean(c) /\ FilledWith(c))
        /\ BorderSample = {} <=> TouchesAllEdges
        /\ TouchesAllEdges => OutImage = InImage

\* the centre of a 3x3 checkerboard was filled: its four neighbours are
\* white and the four corners black, and the fill is white
C26_Witness ==
    /\ Filled /\ last_op.mode = "average" /\ NonDegenerate
    /\ InImage = Checker(3, 3)
    /\ CX1 = 1 /\ CY1 = 1 /\ CX2 = 2 /\ CY2 = 2
    /\ Cardinality(BorderSample) = 4
    /\ OutImage.px[<<1, 1>>] = White

\* a mean with a fraction: the sample of three pixels sums to 510 a channel
C26_WitnessFraction ==
    /\ Filled /\ last_op.mode = "average" /\ NonDegenerate
    /\ BorderSample # {}
    /\ \E k \in 1 .. 3 :
          SumChannel(InImage, BorderSample, k) % Cardinality(BorderSample) # 0

\* the rectangle covered the whole image
C26_WitnessWhole ==
    /\ Filled /\ last_op.mode = "average" /\ NonDegenerate
    /\ TouchesAllEdges
    /\ InImage.width > 1
    /\ OutImage = InImage

\* the k-th smallest value of channel ch over the sample
KthOfSample(k, ch) ==
    CHOOSE v \in { InImage.px[p][ch] : p \in BorderSample } :
        /\ Cardinality({ p \in BorderSample : InImage.px[p][ch] < v }) < k
        /\ Cardinality({ p \in BorderSample : InImage.px[p][ch] <= v }) >= k

\* the median of channel ch over the sample: the middle value, or the mean
\* of the two middle values with its fraction dropped
SampleMedian(ch) ==
    LET n == Cardinality(BorderSample)
    IN  IF n % 2 = 1 THEN KthOfSample((n + 1) \div 2, ch)
        ELSE (KthOfSample(n \div 2, ch) + KthOfSample(n \div 2 + 1, ch)) \div 2

\* all sampled pixels but one have the colour c
SingleOutlier(c) ==
    /\ Cardinality(BorderSample) >= 3
    /\ \E q \in BorderSample :
          /\ InImage.px[q] # c
          /\ \A p \in BorderSample \ {q} : InImage.px[p] = c

\* C27: in mode 'median' the sample is the one of mode 'average'; every
\* pixel of the rectangle becomes the per-channel median of the sample and
\* the pixels outside it are unchanged; when all but one of three or more
\* sampled pixels have one colour, the fill is that colour; with no border
\* pixels the image is unchanged.
C27_MedianFill ==
    (Filled /\ last_op.mode = "median" /\ NonDegenerate) =>
        /\ BorderSample # {} =>
              FilledWith(<<SampleMedian(1), SampleMedian(2), SampleMedian(3)>>)
        /\ \A c \in Palette : SingleOutlier(c) => OutImage.px[<<CX1, CY1>>] = c
        /\ BorderSample = {} => OutImage = InImage

\* one white pixel among three sampled pixels, the others black: the fill is
\* black, and the mean of the sample is not
C27_Witness ==
    /\ Filled /\ last_op.mode = "median" /\ NonDegenerate
    /\ Cardinality(BorderSample) = 3
    /\ SingleOutlier(Black)
    /\ \E q \in BorderSample : InImage.px[q] = White
    /\ OutImage.px[<<CX1, CY1>>] = Black

\* an even number of sampled pixels with two different middle values
C27_WitnessEven ==
    /\ Filled /\ last_op.mode = "median" /\ NonDegenerate
    /\ BorderSample # {}
    /\ Cardinality(BorderSample) % 2 = 0
    /\ \E ch \in 1 .. 3 :
          KthOfSample(Cardinality(BorderSample) \div 2, ch)
            # KthOfSample(Cardinality(BorderSample) \div 2 + 1, ch)

(***************************************************************************)
(* Properties of TSpec: the features derived from the size of the region.  *)
(***************************************************************************)
\* the height and the width of the clamped region of the call
RegionH == BoxY2 - BoxY1
RegionW == BoxX2 - BoxX1

SampledRegion ==
    /\ Extracted
    /\ last_op.pre # None /\ last_op.rect # None
    /\ RegionH > 0 /\ RegionW > 0

\* n / d rounded to the nearest integer, a tie going to the even one
RoundDiv(n, d) ==
    LET q == n \div d
        r == n % d
    IN  IF 2 * r < d THEN q
        ELSE IF 2 * r > d THEN q + 1
        ELSE IF q % 2 = 0 THEN q ELSE q + 1

\* t is x * n / d with its fraction dropped
IsTruncated(t, x, n, d) == d * t <= n * x /\ n * x < d * (t + 1)

SourceBBoxIsRegion == last_op.result[1].bbox = <<BoxX1, BoxY1, BoxX2, BoxY2>>

\* C28 as stated: for a clamped region of height h > 0 and width w > 0,
\* extract_font_features returns font_size max(12, round(0.8 h)) and
\* char_spacing max(0, round(0.05 w)), and its source bbox is the clamped
\* rectangle (x1, y1, x2, y2) that was sampled.
C28_SizeFeaturesRounded ==
    SampledRegion =>
        /\ last_op.result[1].font_size = Max(12, RoundDiv(8 * RegionH, 10))
        /\ last_op.result[1].char_spacing = Max(0, RoundDiv(5 * RegionW, 100))
        /\ SourceBBoxIsRegion

\* C28, amended: for a clamped region of height h > 0 and width w > 0,
\* extract_font_features returns font_size max(12, t) with t the integer part
\* of 0.8 h and char_spacing max(0, s) with s the integer part of 0.05 w, and
\* its source bbox is the clamped rectangle (x1, y1, x2, y2) that was sampled.
C28_SizeFeaturesTruncated ==
    SampledRegion =>
        /\ \E t \in 0 .. RegionH :
             /\ IsTruncated(t, RegionH, 8, 10)
             /\ last_op.result[1].font_size = Max(12, t)
        /\ \E s \in 0 .. RegionW :
             /\ IsTruncated(s, RegionW, 5, 100)
             /\ last_op.result[1].char_spacing = Max(0, s)
        /\ SourceBBoxIsRegion

\* a region 16 high, where 0.8 h = 12.8: the size returned is 12, not 13
C28_Witness ==
    /\ SampledRegion
    /\ RegionH = 16
    /\ last_op.result[1].font_size = 12

\* a region at least 11 wide, where 0.05 w is above one half: the spacing
\* returned is 0
C28_WitnessSpacing ==
    /\ SampledRegion
    /\ RegionW >= 11
    /\ last_op.result[1].char_spacing = 0

\* a region tall enough for the size to leave its lower limit of 12
C28_WitnessAboveLimit ==
    /\ SampledRegion
    /\ last_op.result[1].font_size > 12

(***************************************************************************)
(* Properties of FSpec: the order of preference.                           *)
(***************************************************************************)
\* the text holds a character in U+4E00..U+9FFF
HasIdeograph ==
    \E i \in 1 .. Len(GivenContent) : GivenContent[i] \in 19968 .. 40959

BoldSet == "is_bold" \in DOMAIN GivenFeatures /\ GivenFeatures.is_bold

\* the four preference lists
CJKBoldList ==
    <<"SimHei", "Microsoft YaHei", "KaiTi", "SimHei", "Microsoft YaHei",
      "SimSun", "KaiTi">>
CJKList == <<"SimHei", "Microsoft YaHei", "SimSun", "KaiTi">>
LatinBoldList ==
    <<"Arial Bold", "Times New Roman Bold", "Arial", "Times New Roman",
      "Calibri", "Courier New">>
LatinList == <<"Arial", "Times New Roman", "Calibri", "Courier New">>

ExpectedList ==
    IF HasIdeograph THEN (IF BoldSet THEN CJKBoldList ELSE CJKList)
    ELSE (IF BoldSet THEN LatinBoldList ELSE LatinList)

SomePreferred ==
    \E i \in 1 .. Len(ExpectedList) : ExpectedList[i] \in Range(GivenFonts)

\* C29: match_font uses the CJK preference list exactly when the text holds a
\* character in U+4E00..U+9FFF and the Latin list otherwise, with the bold
\* variants prepended when is_bold is set, and chooses the first name of that
\* list, in list order, that occurs in the available-fonts list; the size
\* returned is the features' font_size, 24 when absent.
C29_FontPreference ==
    Matched =>
        /\ ReturnedSize = FeatureSize
        /\ SomePreferred =>
             \E i \in 1 .. Len(ExpectedList) :
                /\ ExpectedList[i] \in Range(GivenFonts)
                /\ \A j \in 1 .. (i - 1) : ExpectedList[j] \notin Range(GivenFonts)
                /\ ChosenName = ExpectedList[i]

\* a bold Latin text with a font list holding Arial and Times New Roman Bold
\* but not Arial Bold: the bold variant is chosen before Arial
C29_Witness ==
    /\ Matched
    /\ BoldSet /\ ~HasIdeograph
    /\ "Arial" \in Range(GivenFonts)
    /\ "Arial Bold" \notin Range(GivenFonts)
    /\ ChosenName = "Times New Roman Bold"

\* a bold CJK text with a list that holds KaiTi before SimSun and neither
\* SimHei nor Microsoft YaHei: KaiTi, a bold variant, is chosen
C29_WitnessCJKBold ==
    /\ Matched
    /\ BoldSet /\ HasIdeograph
    /\ "SimHei" \notin Range(GivenFonts)
    /\ ChosenName = "KaiTi"

\* the same list for a CJK text that is not bold: SimSun is chosen although
\* KaiTi comes first in the list of available fonts
C29_WitnessListOrder ==
    /\ Matched
    /\ ~BoldSet /\ HasIdeograph
    /\ GivenFonts # <<>> /\ GivenFonts[1] = "KaiTi"
    /\ ChosenName = "SimSun"

\* the features carry no font_size: 24 is returned
C29_WitnessNoSize ==
    /\ Matched
    /\ "font_size" \notin DOMAIN GivenFeatures
    /\ ReturnedSize = 24

\* a text whose only character is U+9FFF, the last of the range
C29_WitnessRangeEnd ==
    /\ Matched
    /\ GivenContent = <<40959>>
    /\ ChosenName = "SimHei"

(***************************************************************************)
(* Properties of TSpec: the mask of delete_text.                           *)
(***************************************************************************)
DeletedText == last_op.op = "delete_text"

GivenBBoxes   == last_op.rect
GivenImage    == last_op.pre[1]
ReturnedImage == heap[ret[1]]
InpaintMasks  == last_op.calls

\* pixel p lies within the axis-aligned bounds of bbox widened by d on each
\* side
WithinBounds(p, bbox, d) ==
    /\ SetMin(XCoords(bbox)) - d <= p[1] /\ p[1] < SetMax(XCoords(bbox)) + d
    /\ SetMin(YCoords(bbox)) - d <= p[2] /\ p[2] < SetMax(YCoords(bbox)) + d

\* the bounds of bbox hold a pixel of the image
CoversPixel(bbox) == \E p \in PixelsOf(GivenImage) : WithinBounds(p, bbox, 0)

\* the union over every bbox of its bounds expanded by 2 and clamped
ExpandedUnion ==
    { p \in PixelsOf(GivenImage) :
        \E i \in 1 .. Len(GivenBBoxes) : WithinBounds(p, GivenBBoxes[i], 2) }

\* the same union over the bboxes whose own bounds hold a pixel of the image
ExpandedUnionOfCovering ==
    { p \in PixelsOf(GivenImage) :
        \E i \in 1 .. Len(GivenBBoxes) :
            CoversPixel(GivenBBoxes[i]) /\ WithinBounds(p, GivenBBoxes[i], 2) }

UnchangedOutside(mask) ==
    /\ ReturnedImage.width = GivenImage.width
    /\ ReturnedImage.height = GivenImage.height
    /\ \A p \in PixelsOf(GivenImage) \ mask : ReturnedImage.px[p] = GivenImage.px[p]

IdenticalCopy ==
    /\ ret # current_image
    /\ ReturnedImage = GivenImage
    /\ InpaintMasks = <<>>

\* C30 as stated: for a non-empty bbox list delete_text builds one mask equal
\* to the union, over every bbox of the list, of the bbox's bounds expanded by
\* 2 pixels on each side and clamped to the image, and inpaints exactly once
\* over that mask, so every pixel outside the mask is unchanged; for an empty
\* list it returns a pixel-identical copy.
C30_DeleteMaskEveryBBox ==
    DeletedText =>
        IF GivenBBoxes = <<>> THEN IdenticalCopy
        ELSE /\ InpaintMasks = <<ExpandedUnion>>
             /\ UnchangedOutside(ExpandedUnion)

\* C30, amended: for a non-empty bbox list delete_text builds one mask equal
\* to the union, over the bboxes of the list whose bounds hold at least one
\* pixel of the image, of the bbox's bounds expanded by 2 pixels on each side
\* and clamped to the image (a bbox whose bounds hold no pixel marks nothing),
\* and inpaints exactly once over that mask, so every pixel outside the mask
\* is unchanged; for an empty list it returns a pixel-identical copy.
C30_DeleteMaskCoveringBBoxes ==
    DeletedText =>
        IF GivenBBoxes = <<>> THEN IdenticalCopy
        ELSE /\ InpaintMasks = <<ExpandedUnionOfCovering>>
             /\ UnchangedOutside(ExpandedUnionOfCovering)

\* two bboxes along a strip, each marking pixels the other does not: the
\* mask is their union, pixels inside it were repainted and pixels outside it
\* exist
C30_Witness ==
    /\ DeletedText
    /\ Len(GivenBBoxes) = 2
    /\ CoversPixel(GivenBBoxes[1]) /\ CoversPixel(GivenBBoxes[2])
    /\ \E p \in InpaintMasks[1] : ~WithinBounds(p, GivenBBoxes[1], 2)
    /\ \E p \in InpaintMasks[1] : ~WithinBounds(p, GivenBBoxes[2], 2)
    /\ InpaintMasks[1] # PixelsOf(GivenImage)
    /\ last_op.ran

\* a bbox that holds no pixel of the image, beside one that does: only the
\* second marks the mask
C30_WitnessNotCovering ==
    /\ DeletedText
    /\ Len(GivenBBoxes) = 2
    /\ ~CoversPixel(GivenBBoxes[1]) /\ CoversPixel(GivenBBoxes[2])
    /\ ExpandedUnion # ExpandedUnionOfCovering
    /\ InpaintMasks[1] # {}

\* the empty list
C30_WitnessEmptyList ==
    /\ DeletedText
    /\ GivenBBoxes = <<>>
    /\ IdenticalCopy

====
